---- MODULE Spec2Model ----
(***************************************************************************)
(* Model of the offline model lifecycle manager (services/modelManager.ts), *)
(* the inference engine (services/mlService.ts), the language detector and  *)
(* the translation orchestrator (services/translationService.ts).           *)
(*                                                                          *)
(* JavaScript runs the code on one event loop: every action below is the    *)
(* code that runs between two suspension points (an `await` on file-system, *)
(* network or model I/O).                                                   *)
(***************************************************************************)
EXTENDS Bags, FiniteSets, Integers, Sequences, TLC

VARIABLES
  models,           \* ModelManager.models: Map<id, ModelInfo>, the ids loaded so far
  initIdx,          \* initializeModelConfigs: number of MODEL_CONFIGS entries loaded
  downloadQueue,    \* ModelManager.downloadQueue
  activeDownloads,  \* ModelManager.activeDownloads
  maxStorageUsage,  \* progressiveOptions.maxStorageUsage (bytes)
  pendingChecks,    \* processDownloadQueue passes suspended in wouldExceedStorageLimit,
                    \* each holding the item it shifted off the queue
  transfers,        \* bag of running ModelManager.downloadModel executions
  disk,             \* model ids whose model.json exists under the model directory
  clock,            \* logical time of `new Date()` in addToDownloadQueue
  deletion,         \* the deleteModel call in progress, or the last one that settled
  modelStatus,      \* TranslationService.modelStatus: Map<id, ModelStatus>
  activeModels,     \* MlService.activeModels: model id -> the runtime handle cached
                    \* for it, a handle being named by its rank among the
                    \* handles the cache has held for that id
  isTfReady,        \* MlService.isTfReady
  call,             \* the translate call in progress, or the last one that settled
  callAppends,      \* the addTranslation calls that translate call has issued
  liveTensors,      \* tensors allocated and not disposed
  unhandled,        \* model ids whose download promise rejected with no handler
  downloadCall,     \* the direct TranslationService.downloadModel call, or the last settled
  loadCalls,        \* the direct MlService.loadModel calls, each in progress or settled
  pureArg,          \* argument of the pure function applied in SpecConfidence
  pureRet,          \* its result
  paused,           \* history: pauseProgressiveDownloading was called and
                    \* resumeProgressiveDownloading has not been called since
  skipLog,          \* model ids of the "Skipping download of ..." lines logged
  history,          \* TranslationHistoryService.history, as the ids of its records
  isLoaded,         \* TranslationHistoryService.isLoaded
  historyFile,      \* content of translation_history.json, None while it does not exist
  historyOps        \* the load the constructor started and the addTranslation and
                    \* clearHistory calls made, each with the await it has reached

schedVars == <<models, initIdx, downloadQueue, activeDownloads, maxStorageUsage,
               pendingChecks, transfers, disk, clock, deletion>>

orchVars == <<modelStatus, activeModels, isTfReady, call, callAppends, liveTensors,
              unhandled, downloadCall, loadCalls>>

pureVars == <<pureArg, pureRet>>

obsVars == <<paused, skipLog>>

historyVars == <<history, isLoaded, historyFile, historyOps>>

vars == <<schedVars, orchVars, pureVars, historyVars, obsVars>>

----------------------------------------------------------------------------
(* Bounds of the model *)

MaxEnqueues == 4        \* enqueues (values of the clock) in Spec
MaxQueueEnqueues == 5   \* enqueues (values of the clock) in SpecQueue
MaxTransfers == 1       \* concurrent transfers started outside the queue
MaxLeakedTensors == 1   \* translate is called while fewer tensors than this are live
MaxLogits == 2          \* length of a logits vector given to the confidence function
MaxDetections == 2      \* length of the list the secondary detector reports
MaxDrainEnqueues == 4   \* enqueues (values of the clock) in SpecDrain
MaxProgressEnqueues == 4 \* enqueues (values of the clock) in SpecProgress
MaxAdmissionEnqueues == 4 \* enqueues (values of the clock) in SpecAdmission
MaxPauseEnqueues == 5   \* enqueues (values of the clock) in SpecPause
\* Direct loadModel calls followed at a time, and handles a model id is given
MaxLoadCalls == 2
MaxHandles == 2

MaxUsageCount == 2       \* requestModel calls counted over all models

MaxHistoryAdds == 2      \* addTranslation calls made

MaxPredictions == 5     \* length of a predictions vector given to generateAlternativeTranslations

----------------------------------------------------------------------------
(* constants/modelConfigs.ts *)

MB == 1048576

MODEL_CONFIGS ==
  << [id |-> "en2tr-small",        size |-> 25, srcLang |-> "en", targetLang |-> "tr"],
     [id |-> "tr2en-small",        size |-> 25, srcLang |-> "tr", targetLang |-> "en"],
     [id |-> "opus-mt-en2tr-base", size |-> 65, srcLang |-> "en", targetLang |-> "tr"] >>

ModelIds == { MODEL_CONFIGS[i].id : i \in 1..Len(MODEL_CONFIGS) }

\* The catalog ids and ids a caller of the public addToDownloadQueue passes
\* that are in no catalog entry.
QueueIds == ModelIds \cup { "es2en", "fr2en" }

ConfigOf(id) == MODEL_CONFIGS[CHOOSE i \in 1..Len(MODEL_CONFIGS) : MODEL_CONFIGS[i].id = id]

Undefined == "undefined"

\* An optional value that is not a string: absent, or present with value x.
None == << >>

Some(x) == << x >>

Max2(a, b) == IF a >= b THEN a ELSE b

----------------------------------------------------------------------------
(* ModelManager.calculateModelPriority *)

languagePopularity ==
  [ en |-> 100, es |-> 90, fr |-> 80, de |-> 70, it |-> 60,
    pt |-> 55,  ru |-> 50, ja |-> 45, ko |-> 40, zh |-> 85,
    ar |-> 35,  hi |-> 30, tr |-> 25, nl |-> 20, sv |-> 15 ]

Popularity(lang) ==
  IF lang \in DOMAIN languagePopularity THEN languagePopularity[lang] ELSE 10

\* Math.round: the nearest integer, halves towards +Infinity.  The argument is
\* given as twice its value so that the .5 of the average stays exact.
RoundHalf(twice) == (twice + 1) \div 2

\* The size penalty applied from 50MB on.
calculateModelPriorityFrom50(config) ==
  LET base2    == Popularity(config.srcLang) + Popularity(config.targetLang)
      boost2   == IF config.srcLang = "en" \/ config.targetLang = "en" THEN 40 ELSE 0
      sizeInBytes == (IF config.size = 0 THEN 15 ELSE config.size) * MB
      penalty2 == IF sizeInBytes >= 50 * MB THEN 20 ELSE 0
  IN  Max2(1, RoundHalf(base2 + boost2 - penalty2))

calculateModelPriority(config) ==
  LET base2    == Popularity(config.srcLang) + Popularity(config.targetLang)
      boost2   == IF config.srcLang = "en" \/ config.targetLang = "en" THEN 40 ELSE 0
      \* `config.size || 15`: a size of 0 stands for every falsy size
      sizeInBytes == (IF config.size = 0 THEN 15 ELSE config.size) * MB
      penalty2 == IF sizeInBytes > 50 * MB THEN 20 ELSE 0
  IN  Max2(1, RoundHalf(base2 + boost2 - penalty2))

DownloadSize(config) == config.size * MB

----------------------------------------------------------------------------
(* ModelManager: queue, admission, transfers *)

maxConcurrentDownloads == 2

DefaultMaxStorageUsage == 500 * MB

\* Values passed to configureProgressiveDownloading({maxStorageUsage})
StorageOptions == { 0, 80 * MB }

RECURSIVE SumSizes(_)
SumSizes(S) ==
  IF S = {} THEN 0
  ELSE LET id == CHOOSE x \in S : TRUE
       IN  DownloadSize(ConfigOf(id)) + SumSizes(S \ {id})

\* What FileSystem.stat(modelDir) reports when it succeeds.
DiskUsage(d) == SumSizes(d)

\* (mutation) an insertion that puts the item in front of its equals.
RECURSIVE InsertByPriorityUnstable(_, _)
InsertByPriorityUnstable(q, item) ==
  IF q = <<>> THEN <<item>>
  ELSE IF Head(q).priority > item.priority
       THEN <<Head(q)>> \o InsertByPriorityUnstable(Tail(q), item)
       ELSE <<item>> \o q

\* One comparison-insertion of Array.prototype.sort((a, b) => b.priority - a.priority):
\* the sort is stable, so an item goes behind every item of the same or higher priority.
RECURSIVE InsertByPriority(_, _)
InsertByPriority(q, item) ==
  IF q = <<>> THEN <<item>>
  ELSE IF Head(q).priority >= item.priority
       THEN <<Head(q)>> \o InsertByPriority(Tail(q), item)
       ELSE <<item>> \o q

RECURSIVE SortByPriority(_)
SortByPriority(q) ==
  IF q = <<>> THEN <<>>
  ELSE InsertByPriority(SortByPriority(SubSeq(q, 1, Len(q) - 1)), q[Len(q)])

\* The scheduler's mutable state as one record, so that the synchronous call
\* chains addToDownloadQueue -> processDownloadQueue compose.
Sched(q, a, p, c) == [q |-> q, active |-> a, pending |-> p, clock |-> c]

\* processDownloadQueue up to its first await: the loop test, the shift, and
\* the suspension in wouldExceedStorageLimit.
processDownloadQueue(S) ==
  IF Cardinality(S.active) < maxConcurrentDownloads /\ S.q # <<>>
  THEN [S EXCEPT !.q = Tail(S.q), !.pending = S.pending \cup {Head(S.q)}]
  ELSE S

InQueue(q, id) == \E i \in 1..Len(q) : q[i].modelId = id

addToDownloadQueue(S, modelId, priority, estimatedSize) ==
  IF InQueue(S.q, modelId) \/ modelId \in S.active
  THEN S
  ELSE LET queueItem == [modelId |-> modelId, priority |-> priority,
                         estimatedSize |-> estimatedSize, addedAt |-> S.clock]
       IN  processDownloadQueue(
             [S EXCEPT !.q = SortByPriority(Append(S.q, queueItem)),
                       !.clock = S.clock + 1])

\* The loaded models in Map insertion order (the order of MODEL_CONFIGS).
ModelOrder(m) == SelectSeq([i \in 1..Len(MODEL_CONFIGS) |-> MODEL_CONFIGS[i].id],
                           LAMBDA id : id \in DOMAIN m)

RECURSIVE InsertModelByPriority(_, _, _)
InsertModelByPriority(m, s, id) ==
  IF s = <<>> THEN <<id>>
  ELSE IF m[Head(s)].priority >= m[id].priority
       THEN <<Head(s)>> \o InsertModelByPriority(m, Tail(s), id)
       ELSE <<id>> \o s

RECURSIVE SortModelsByPriority(_, _)
SortModelsByPriority(m, s) ==
  IF s = <<>> THEN <<>>
  ELSE InsertModelByPriority(m, SortModelsByPriority(m, SubSeq(s, 1, Len(s) - 1)), s[Len(s)])

TopN == 5

RECURSIVE EnqueueAll(_, _, _)
EnqueueAll(S, m, ids) ==
  IF ids = <<>> THEN S
  ELSE EnqueueAll(addToDownloadQueue(S, Head(ids), m[Head(ids)].priority,
                                     m[Head(ids)].downloadSize),
                  m, Tail(ids))

\* Seeding the queue from every model, downloaded or not.
startProgressiveDownloadingAll(S, m) ==
  LET sorted == SortModelsByPriority(m, ModelOrder(m))
      top    == SubSeq(sorted, 1, IF Len(sorted) < TopN THEN Len(sorted) ELSE TopN)
  IN  processDownloadQueue(EnqueueAll(S, m, top))

startProgressiveDownloading(S, m) ==
  LET undownloaded == SelectSeq(ModelOrder(m), LAMBDA id : ~m[id].isDownloaded)
      sorted       == SortModelsByPriority(m, undownloaded)
      top          == SubSeq(sorted, 1, IF Len(sorted) < TopN THEN Len(sorted) ELSE TopN)
  IN  processDownloadQueue(EnqueueAll(S, m, top))

\* ModelManager.downloadModel up to its first await.  A known, undownloaded
\* model starts a file transfer; a downloaded one makes the promise resolve with
\* the stored entry; an id missing from the map makes it reject.
NewTransfer(m, id, origin) ==
  [id |-> id, origin |-> origin,
   kind |-> IF id \notin DOMAIN m THEN "notfound"
            ELSE IF m[id].isDownloaded THEN "already" ELSE "real",
   snap |-> IF id \in DOMAIN m THEN Some(m[id]) ELSE None,
   bytesWritten |-> 0]

----------------------------------------------------------------------------
(* Strings are sequences of UTF-16 code units. *)

\* String.prototype.toLowerCase on the letters A-Z
ToLowerCase(s) == [i \in 1..Len(s) |-> IF s[i] >= 65 /\ s[i] <= 90 THEN s[i] + 32 ELSE s[i]]

\* tab, line feed, vertical tab, form feed, carriage return, space
WhiteSpace == { 9, 10, 11, 12, 13, 32 }

RECURSIVE TrimStart(_)
TrimStart(s) == IF s # <<>> /\ Head(s) \in WhiteSpace THEN TrimStart(Tail(s)) ELSE s

RECURSIVE TrimEnd(_)
TrimEnd(s) ==
  IF s # <<>> /\ s[Len(s)] \in WhiteSpace THEN TrimEnd(SubSeq(s, 1, Len(s) - 1)) ELSE s

\* String.prototype.trim
Trim(s) == TrimEnd(TrimStart(s))

\* Math.max(32, Math.min(126, Math.round(Math.abs(code)))) for a whole code
ClampCharCode(code) ==
  LET a == IF code < 0 THEN 0 - code ELSE code
  IN  Max2(32, IF a < 126 THEN a ELSE 126)

\* String.fromCharCode(...codes.map(clamp))
FromCharCodes(codes) == [i \in 1..Len(codes) |-> ClampCharCode(codes[i])]

----------------------------------------------------------------------------
(* constants/languages: the languages the application supports *)

LANGUAGES ==
  << [code |-> "en", name |-> << 69, 110, 103, 108, 105, 115, 104 >>],    \* "English"
     [code |-> "tr", name |-> << 84, 117, 114, 107, 105, 115, 104 >>],    \* "Turkish"
     [code |-> "es", name |-> << 83, 112, 97, 110, 105, 115, 104 >>] >>  \* "Spanish"

IsSupported(code) == \E i \in 1..Len(LANGUAGES) : LANGUAGES[i].code = code

\* LANGUAGES.find(lang => lang.code === code), for a supported code
FindLanguage(code) ==
  LANGUAGES[CHOOSE i \in 1..Len(LANGUAGES) :
              /\ LANGUAGES[i].code = code
              /\ \A j \in 1..(i - 1) : LANGUAGES[j].code # code]

----------------------------------------------------------------------------
(* LanguageDetectionService *)

languageCodeMapping ==
  [ eng |-> "en", tur |-> "tr", spa |-> "es", fra |-> "fr", deu |-> "de", rus |-> "ru",
    ara |-> "ar", zho |-> "zh", jpn |-> "ja", kor |-> "ko", ita |-> "it", por |-> "pt" ]

minTextLength == 10

Min2(a, b) == IF a <= b THEN a ELSE b

\* Confidences and probabilities of the detectors are in thousandths (300 is 0.3).
createDefaultResult ==
  [ detectedLanguage     |-> IF IsSupported("en") THEN FindLanguage("en") ELSE LANGUAGES[1],
    confidence           |-> 300,
    alternativeLanguages |-> << >> ]

\* getLangdetectCode returning the base code of every language.
getLangdetectCodeUnfolded(langdetectCode) ==
  LET baseLang == langdetectCode.base
  IN  baseLang

\* A langdetect code is its base language and its regional suffix ('zh', 'cn');
\* split('-')[0] is the base.  The base codes langdetect reports are lower case.
getLangdetectCode(langdetectCode) ==
  LET baseLang == langdetectCode.base
  IN  IF IsSupported(baseLang) THEN baseLang ELSE "en"

\* The loop of getAlternativeLanguages from index i (1-based), alternatives so far in acc.
RECURSIVE AlternativesFrom(_, _, _, _)
AlternativesFrom(results, primaryCode, i, acc) ==
  IF i > Min2(4, Len(results)) THEN acc
  ELSE LET code == getLangdetectCode(results[i].lang)
       IN  IF code = primaryCode
           THEN AlternativesFrom(results, primaryCode, i + 1, acc)
           ELSE LET acc1 == IF IsSupported(code)
                            THEN Append(acc, [language   |-> FindLanguage(code),
                                              confidence |-> Min2(900, results[i].prob)])
                            ELSE acc
                IN  IF Len(acc1) >= 3 THEN acc1
                    ELSE AlternativesFrom(results, primaryCode, i + 1, acc1)

getAlternativeLanguages(langdetectResults, primaryCode) ==
  IF Len(langdetectResults) <= 1 THEN << >>
  ELSE AlternativesFrom(langdetectResults, primaryCode, 1, << >>)

\* detectLanguage measuring the text as given.
detectLanguageUntrimmed(text, det) ==
  IF Len(text) < minTextLength THEN createDefaultResult
  ELSE IF det.throws THEN createDefaultResult
  ELSE
    LET iso6391Code == IF det.franc \in DOMAIN languageCodeMapping
                       THEN languageCodeMapping[det.franc] ELSE "en"
        detectedLanguage ==
          IF IsSupported(iso6391Code) THEN FindLanguage(iso6391Code)
          ELSE IF IsSupported("en") THEN FindLanguage("en") ELSE LANGUAGES[1]
        confidence ==
          IF Len(det.results) > 0
          THEN IF getLangdetectCode(det.results[1].lang) = iso6391Code
               THEN Min2(950, 700 + det.results[1].prob)
               ELSE 500
          ELSE 600
    IN  [ detectedLanguage     |-> detectedLanguage,
          confidence           |-> confidence,
          alternativeLanguages |-> getAlternativeLanguages(det.results, detectedLanguage.code) ]

\* det is what the two detectors do on this text: franc's code, langdetect's
\* ranked list (probabilities in thousandths), and whether one of them throws.
detectLanguage(text, det) ==
  IF Len(Trim(text)) < minTextLength THEN createDefaultResult
  ELSE IF det.throws THEN createDefaultResult
  ELSE
    LET iso6391Code == IF det.franc \in DOMAIN languageCodeMapping
                       THEN languageCodeMapping[det.franc] ELSE "en"
        detectedLanguage ==
          IF IsSupported(iso6391Code) THEN FindLanguage(iso6391Code)
          ELSE IF IsSupported("en") THEN FindLanguage("en") ELSE LANGUAGES[1]
        confidence ==
          IF Len(det.results) > 0
          THEN IF getLangdetectCode(det.results[1].lang) = iso6391Code
               THEN Min2(950, 700 + det.results[1].prob)
               ELSE 500
          ELSE 600
    IN  [ detectedLanguage     |-> detectedLanguage,
          confidence           |-> confidence,
          alternativeLanguages |-> getAlternativeLanguages(det.results, detectedLanguage.code) ]

----------------------------------------------------------------------------
(* JavaScript numbers.  Probabilities and confidences are fractions of 1;
   they are kept in thousandths (Scale).  A number is finite, NaN, or an
   infinity, and the arithmetic below follows IEEE 754 as Math.* does. *)

Scale == 1000

Num(x) == [kind |-> "num", v |-> x]

NaN == [kind |-> "nan", v |-> 0]

IsNum(a) == a.kind = "num"

Sign(x) == IF x > 0 THEN 1 ELSE IF x < 0 THEN -1 ELSE 0

\* a / b for finite a, b (both in thousandths; the quotient in thousandths)
JDiv(a, b) ==
  IF b = 0
  THEN IF a = 0 THEN NaN ELSE [kind |-> "inf", v |-> Sign(a)]
  ELSE Num((a * Scale) \div b)

\* c - a for a finite c
JSubFrom(c, a) ==
  CASE a.kind = "num" -> Num(c - a.v)
    [] a.kind = "nan" -> NaN
    [] a.kind = "inf" -> [kind |-> "inf", v |-> -a.v]

\* w * a for a finite weight w > 0 (in thousandths)
JScale(w, a) ==
  CASE a.kind = "num" -> Num((w * a.v) \div Scale)
    [] a.kind = "nan" -> NaN
    [] a.kind = "inf" -> a

JAdd(a, b) ==
  CASE a.kind = "nan" \/ b.kind = "nan" -> NaN
    [] a.kind = "num" /\ b.kind = "num" -> Num(a.v + b.v)
    [] a.kind = "inf" /\ b.kind = "num" -> a
    [] a.kind = "num" /\ b.kind = "inf" -> b
    [] a.kind = "inf" /\ b.kind = "inf" -> IF a.v = b.v THEN a ELSE NaN

\* Math.min(c, a) and Math.max(c, a) for a finite c: NaN if an argument is NaN
JMin(c, a) ==
  CASE a.kind = "nan" -> NaN
    [] a.kind = "num" -> Num(IF a.v < c THEN a.v ELSE c)
    [] a.kind = "inf" -> IF a.v < 0 THEN a ELSE Num(c)

JMax(c, a) ==
  CASE a.kind = "nan" -> NaN
    [] a.kind = "num" -> Num(IF a.v > c THEN a.v ELSE c)
    [] a.kind = "inf" -> IF a.v > 0 THEN a ELSE Num(c)

\* Math.exp(-d) for a whole d >= 0, in thousandths
ExpNeg(d) ==
  LET ExpTable == << 1000, 368, 135, 50, 18, 7, 2, 1 >>
  IN  IF d < Len(ExpTable) THEN ExpTable[d + 1] ELSE 0

\* Math.log(p / 1000) for p in 1..1000, in thousandths
LnTable ==
  <<
     -6908, -6215, -5809, -5521, -5298, -5116, -4962, -4828, -4711, -4605, -4510, -4423, -4343, -4269, -4200, -4135, -4075, -4017, -3963, -3912,
     -3863, -3817, -3772, -3730, -3689, -3650, -3612, -3576, -3540, -3507, -3474, -3442, -3411, -3381, -3352, -3324, -3297, -3270, -3244, -3219,
     -3194, -3170, -3147, -3124, -3101, -3079, -3058, -3037, -3016, -2996, -2976, -2957, -2937, -2919, -2900, -2882, -2865, -2847, -2830, -2813,
     -2797, -2781, -2765, -2749, -2733, -2718, -2703, -2688, -2674, -2659, -2645, -2631, -2617, -2604, -2590, -2577, -2564, -2551, -2538, -2526,
     -2513, -2501, -2489, -2477, -2465, -2453, -2442, -2430, -2419, -2408, -2397, -2386, -2375, -2364, -2354, -2343, -2333, -2323, -2313, -2303,
     -2293, -2283, -2273, -2263, -2254, -2244, -2235, -2226, -2216, -2207, -2198, -2189, -2180, -2172, -2163, -2154, -2146, -2137, -2129, -2120,
     -2112, -2104, -2096, -2087, -2079, -2071, -2064, -2056, -2048, -2040, -2033, -2025, -2017, -2010, -2002, -1995, -1988, -1981, -1973, -1966,
     -1959, -1952, -1945, -1938, -1931, -1924, -1917, -1911, -1904, -1897, -1890, -1884, -1877, -1871, -1864, -1858, -1852, -1845, -1839, -1833,
     -1826, -1820, -1814, -1808, -1802, -1796, -1790, -1784, -1778, -1772, -1766, -1760, -1754, -1749, -1743, -1737, -1732, -1726, -1720, -1715,
     -1709, -1704, -1698, -1693, -1687, -1682, -1677, -1671, -1666, -1661, -1655, -1650, -1645, -1640, -1635, -1630, -1625, -1619, -1614, -1609,
     -1604, -1599, -1595, -1590, -1585, -1580, -1575, -1570, -1565, -1561, -1556, -1551, -1546, -1542, -1537, -1532, -1528, -1523, -1519, -1514,
     -1510, -1505, -1501, -1496, -1492, -1487, -1483, -1478, -1474, -1470, -1465, -1461, -1457, -1452, -1448, -1444, -1440, -1435, -1431, -1427,
     -1423, -1419, -1415, -1411, -1406, -1402, -1398, -1394, -1390, -1386, -1382, -1378, -1374, -1370, -1366, -1363, -1359, -1355, -1351, -1347,
     -1343, -1339, -1336, -1332, -1328, -1324, -1321, -1317, -1313, -1309, -1306, -1302, -1298, -1295, -1291, -1287, -1284, -1280, -1277, -1273,
     -1269, -1266, -1262, -1259, -1255, -1252, -1248, -1245, -1241, -1238, -1234, -1231, -1228, -1224, -1221, -1217, -1214, -1211, -1207, -1204,
     -1201, -1197, -1194, -1191, -1187, -1184, -1181, -1178, -1174, -1171, -1168, -1165, -1162, -1158, -1155, -1152, -1149, -1146, -1143, -1139,
     -1136, -1133, -1130, -1127, -1124, -1121, -1118, -1115, -1112, -1109, -1106, -1103, -1100, -1097, -1094, -1091, -1088, -1085, -1082, -1079,
     -1076, -1073, -1070, -1067, -1064, -1061, -1058, -1056, -1053, -1050, -1047, -1044, -1041, -1038, -1036, -1033, -1030, -1027, -1024, -1022,
     -1019, -1016, -1013, -1011, -1008, -1005, -1002, -1000, -997, -994, -992, -989, -986, -983, -981, -978, -976, -973, -970, -968,
     -965, -962, -960, -957, -955, -952, -949, -947, -944, -942, -939, -936, -934, -931, -929, -926, -924, -921, -919, -916,
     -914, -911, -909, -906, -904, -901, -899, -896, -894, -892, -889, -887, -884, -882, -879, -877, -875, -872, -870, -868,
     -865, -863, -860, -858, -856, -853, -851, -849, -846, -844, -842, -839, -837, -835, -832, -830, -828, -826, -823, -821,
     -819, -816, -814, -812, -810, -807, -805, -803, -801, -799, -796, -794, -792, -790, -787, -785, -783, -781, -779, -777,
     -774, -772, -770, -768, -766, -764, -761, -759, -757, -755, -753, -751, -749, -747, -744, -742, -740, -738, -736, -734,
     -732, -730, -728, -726, -724, -722, -719, -717, -715, -713, -711, -709, -707, -705, -703, -701, -699, -697, -695, -693,
     -691, -689, -687, -685, -683, -681, -679, -677, -675, -673, -671, -669, -667, -666, -664, -662, -660, -658, -656, -654,
     -652, -650, -648, -646, -644, -642, -641, -639, -637, -635, -633, -631, -629, -627, -625, -624, -622, -620, -618, -616,
     -614, -612, -611, -609, -607, -605, -603, -601, -600, -598, -596, -594, -592, -591, -589, -587, -585, -583, -582, -580,
     -578, -576, -574, -573, -571, -569, -567, -566, -564, -562, -560, -559, -557, -555, -553, -552, -550, -548, -546, -545,
     -543, -541, -540, -538, -536, -534, -533, -531, -529, -528, -526, -524, -523, -521, -519, -518, -516, -514, -512, -511,
     -509, -507, -506, -504, -503, -501, -499, -498, -496, -494, -493, -491, -489, -488, -486, -485, -483, -481, -480, -478,
     -476, -475, -473, -472, -470, -468, -467, -465, -464, -462, -460, -459, -457, -456, -454, -453, -451, -449, -448, -446,
     -445, -443, -442, -440, -439, -437, -435, -434, -432, -431, -429, -428, -426, -425, -423, -422, -420, -419, -417, -416,
     -414, -412, -411, -409, -408, -406, -405, -403, -402, -400, -399, -397, -396, -395, -393, -392, -390, -389, -387, -386,
     -384, -383, -381, -380, -378, -377, -375, -374, -373, -371, -370, -368, -367, -365, -364, -362, -361, -360, -358, -357,
     -355, -354, -352, -351, -350, -348, -347, -345, -344, -342, -341, -340, -338, -337, -335, -334, -333, -331, -330, -329,
     -327, -326, -324, -323, -322, -320, -319, -317, -316, -315, -313, -312, -311, -309, -308, -307, -305, -304, -302, -301,
     -300, -298, -297, -296, -294, -293, -292, -290, -289, -288, -286, -285, -284, -282, -281, -280, -278, -277, -276, -274,
     -273, -272, -270, -269, -268, -267, -265, -264, -263, -261, -260, -259, -257, -256, -255, -254, -252, -251, -250, -248,
     -247, -246, -245, -243, -242, -241, -240, -238, -237, -236, -234, -233, -232, -231, -229, -228, -227, -226, -224, -223,
     -222, -221, -219, -218, -217, -216, -214, -213, -212, -211, -209, -208, -207, -206, -205, -203, -202, -201, -200, -198,
     -197, -196, -195, -194, -192, -191, -190, -189, -188, -186, -185, -184, -183, -182, -180, -179, -178, -177, -176, -174,
     -173, -172, -171, -170, -168, -167, -166, -165, -164, -163, -161, -160, -159, -158, -157, -155, -154, -153, -152, -151,
     -150, -149, -147, -146, -145, -144, -143, -142, -140, -139, -138, -137, -136, -135, -134, -132, -131, -130, -129, -128,
     -127, -126, -124, -123, -122, -121, -120, -119, -118, -117, -115, -114, -113, -112, -111, -110, -109, -108, -106, -105,
     -104, -103, -102, -101, -100, -99, -98, -97, -95, -94, -93, -92, -91, -90, -89, -88, -87, -86, -84, -83,
     -82, -81, -80, -79, -78, -77, -76, -75, -74, -73, -71, -70, -69, -68, -67, -66, -65, -64, -63, -62,
     -61, -60, -59, -58, -57, -56, -54, -53, -52, -51, -50, -49, -48, -47, -46, -45, -44, -43, -42, -41,
     -40, -39, -38, -37, -36, -35, -34, -33, -31, -30, -29, -28, -27, -26, -25, -24, -23, -22, -21, -20,
     -19, -18, -17, -16, -15, -14, -13, -12, -11, -10, -9, -8, -7, -6, -5, -4, -3, -2, -1, 0 >>

LnProb(p) == LnTable[p]

\* Math.log(n) for a small whole n >= 1, in thousandths
LnCount(n) == << 0, 693, 1099, 1386, 1609, 1792 >>[n]

RECURSIVE SeqMax(_)
SeqMax(s) == IF Len(s) = 1 THEN s[1] ELSE Max2(s[1], SeqMax(Tail(s)))

RECURSIVE SeqSum(_)
SeqSum(s) == IF s = <<>> THEN 0 ELSE s[1] + SeqSum(Tail(s))

RECURSIVE SeqProduct(_)
SeqProduct(s) == IF s = <<>> THEN 1 ELSE s[1] * SeqProduct(Tail(s))

RECURSIVE Power(_, _)
Power(b, n) == IF n = 0 THEN 1 ELSE b * Power(b, n - 1)

\* Math.pow(x, 1 / n) for x the product of n values in thousandths
NthRoot(x, n) == CHOOSE r \in 0..Scale : Power(r, n) <= x /\ x < Power(r + 1, n)

----------------------------------------------------------------------------
(* MlService.softmax / calculateTranslationConfidence *)

\* logits are whole numbers here
softmax(logits) ==
  IF logits = <<>> THEN <<>> ELSE
  LET maxLogit  == SeqMax(logits)
      expLogits == [i \in 1..Len(logits) |-> ExpNeg(maxLogit - logits[i])]
      sumExp    == SeqSum(expLogits)
  IN  [i \in 1..Len(logits) |-> (expLogits[i] * Scale) \div sumExp]

\* Math.max(prob, 0.001) is 1 thousandth; the weights 0.4, 0.3 and 0.3 are 400,
\* 300 and 300.
calculateTranslationConfidence(predictions) ==
  IF Len(predictions) = 0 THEN Num(0)
  ELSE
    LET probs   == softmax(predictions)
        n       == Len(probs)
        geometricMean ==
          NthRoot(SeqProduct([i \in 1..n |-> Max2(probs[i], 1)]), n)
        entropy ==
          0 - SeqSum([i \in 1..n |->
                       IF probs[i] > 0 THEN (probs[i] * LnProb(probs[i])) \div Scale ELSE 0])
        maxEntropy        == LnCount(n)
        normalizedEntropy == JDiv(entropy, maxEntropy)
        entropyConfidence == JSubFrom(Scale, normalizedEntropy)
        maxProb           == SeqMax(probs)
        combinedConfidence ==
          JAdd(JAdd(Num((400 * geometricMean) \div Scale),
                    JScale(300, entropyConfidence)),
               Num((300 * maxProb) \div Scale))
    IN  JMax(0, JMin(Scale, combinedConfidence))

----------------------------------------------------------------------------
(* MlService.generateAlternativeTranslations *)

\* Array.prototype.sort((a, b) => b.prob - a.prob) is stable.
RECURSIVE InsertByProb(_, _)
InsertByProb(s, e) ==
  IF s = <<>> THEN <<e>>
  ELSE IF Head(s).prob >= e.prob
       THEN <<Head(s)>> \o InsertByProb(Tail(s), e)
       ELSE <<e>> \o s

RECURSIVE SortByProb(_)
SortByProb(s) ==
  IF s = <<>> THEN <<>>
  ELSE InsertByProb(SortByProb(SubSeq(s, 1, Len(s) - 1)), s[Len(s)])

ScaleByTenth(code) ==
  LET a == IF code < 0 THEN 0 - code ELSE code
  IN  (22 * a + 10) \div 20

\* The text of the alternative that varies position index: that code times 1.1,
\* every code clamped to the printable range.
AlternativeText(predictions, index) ==
  [i \in 1..Len(predictions) |->
     IF i = index THEN Max2(32, Min2(126, ScaleByTenth(predictions[i])))
     ELSE ClampCharCode(predictions[i])]

\* The loop of generateAlternativeTranslations started at the top entry.
generateAlternativeTranslationsFromTop(predictions) ==
  LET probs       == softmax(predictions)
      sortedProbs == SortByProb([i \in 1..Len(probs) |-> [prob |-> probs[i], index |-> i]])
      candidates  == SubSeq(sortedProbs, 1, Min2(4, Len(sortedProbs)))
      kept        == SelectSeq(candidates, LAMBDA e : e.prob >= 100)
  IN  [i \in 1..Len(kept) |->
         [text |-> AlternativeText(predictions, kept[i].index), confidence |-> kept[i].prob]]

generateAlternativeTranslations(predictions) ==
  LET probs       == softmax(predictions)
      sortedProbs == SortByProb([i \in 1..Len(probs) |-> [prob |-> probs[i], index |-> i]])
      candidates  == SubSeq(sortedProbs, 2, Min2(4, Len(sortedProbs)))
      kept        == SelectSeq(candidates, LAMBDA e : e.prob >= 100)
  IN  [i \in 1..Len(kept) |->
         [text |-> AlternativeText(predictions, kept[i].index), confidence |-> kept[i].prob]]

----------------------------------------------------------------------------
(* Initial state: the singleton has been constructed, initializeModelConfigs
   is suspended at its first await, nothing is loaded yet.  The files found
   on disk are whatever an earlier run of the app left there. *)

InitSched ==
  /\ models = << >>
  /\ initIdx = 0
  /\ downloadQueue = << >>
  /\ activeDownloads = {}
  /\ maxStorageUsage = DefaultMaxStorageUsage
  /\ pendingChecks = {}
  /\ transfers = EmptyBag
  /\ disk \in { {} }
  /\ clock = 0
  /\ deletion = [pc |-> "idle", id |-> Undefined, modelInfo |-> None]
  /\ paused = FALSE
  /\ skipLog = {}

----------------------------------------------------------------------------
(* ModelManager.initializeModelConfigs *)

\* `${this.modelDir}/${config.id}/model.json`, named by the model id.
ModelJsonPath(id) == id

\* downloadProgress is a fraction of 1, kept here in percent.
ProgressDone == 100

\* An entry stored without the id of its configuration.
NewModelInfoUnnamed(config, isDownloaded) ==
  [ id               |-> Undefined,
    usageCount       |-> 0,
    lastUsed         |-> None,
    isDownloaded     |-> isDownloaded,
    localPath        |-> IF isDownloaded THEN ModelJsonPath(config.id) ELSE Undefined,
    downloadProgress |-> None,
    priority         |-> calculateModelPriority(config),
    downloadSize     |-> DownloadSize(config) ]

NewModelInfo(config, isDownloaded) ==
  [ id               |-> config.id,
    usageCount       |-> 0,
    lastUsed         |-> None,
    isDownloaded     |-> isDownloaded,
    localPath        |-> IF isDownloaded THEN ModelJsonPath(config.id) ELSE Undefined,
    downloadProgress |-> None,
    priority         |-> calculateModelPriority(config),
    downloadSize     |-> DownloadSize(config) ]

\* One iteration of the loop over MODEL_CONFIGS: the continuation of
\* `await FileSystem.exists(modelJsonPath)`.  After the last entry the same
\* continuation calls startProgressiveDownloading.
LoadConfig ==
  /\ initIdx < Len(MODEL_CONFIGS)
  /\ LET config == MODEL_CONFIGS[initIdx + 1]
         m1     == (config.id :> NewModelInfo(config, config.id \in disk)) @@ models
         S0     == Sched(downloadQueue, activeDownloads, pendingChecks, clock)
         S1     == IF initIdx + 1 = Len(MODEL_CONFIGS)
                   THEN startProgressiveDownloading(S0, m1) ELSE S0
     IN  /\ models' = m1
         /\ initIdx' = initIdx + 1
         /\ downloadQueue' = S1.q
         /\ activeDownloads' = S1.active
         /\ pendingChecks' = S1.pending
         /\ clock' = S1.clock
  /\ UNCHANGED <<maxStorageUsage, transfers, disk>>
  /\ UNCHANGED <<deletion, orchVars, pureVars, historyVars, obsVars>>

----------------------------------------------------------------------------
(* ModelManager: public scheduler operations *)

\* The application uses the manager once initializeModelConfigs has finished.
CatalogLoaded == initIdx >= Len(MODEL_CONFIGS)

\* Priorities a caller passes to the public addToDownloadQueue.
EnqueuePriorities == { 83, 133 }

AddToDownloadQueue(modelId, priority, limit) ==
  /\ CatalogLoaded
  /\ LET S0 == Sched(downloadQueue, activeDownloads, pendingChecks, clock)
         \* `model.downloadSize || 15 * 1024 * 1024`
         estimatedSize == IF modelId \in ModelIds THEN DownloadSize(ConfigOf(modelId))
                          ELSE (15 * MB)
         S1 == addToDownloadQueue(S0, modelId, priority, estimatedSize)
     IN  /\ S1 # S0
         /\ S1.clock <= limit
         /\ downloadQueue' = S1.q
         /\ activeDownloads' = S1.active
         /\ pendingChecks' = S1.pending
         /\ clock' = S1.clock
  /\ UNCHANGED <<models, initIdx, maxStorageUsage, transfers, disk>>
  /\ UNCHANGED <<deletion, orchVars, pureVars, historyVars, obsVars>>

PriorityBoost == 50

RequestModel(modelId, urgent) ==
  /\ CatalogLoaded
  /\ modelId \in DOMAIN models
  /\ urgent \/ models[modelId].isDownloaded \/ clock < MaxEnqueues
  /\ LET RECURSIVE Sum(_)
         Sum(ids) == IF ids = {} THEN 0
                     ELSE LET id == CHOOSE i \in ids : TRUE
                          IN  models[id].usageCount + Sum(ids \ {id})
     IN  Sum(DOMAIN models) < MaxUsageCount
  /\ LET model        == models[modelId]
         \* lastUsed: new Date(), of which the model keeps that it is set
         updatedModel == [model EXCEPT !.usageCount = @ + 1, !.lastUsed = Some("Date")]
         m1           == [models EXCEPT ![modelId] = updatedModel]
         S0           == Sched(downloadQueue, activeDownloads, pendingChecks, clock)
     IN  /\ models' = m1
         /\ IF model.isDownloaded
            THEN UNCHANGED <<downloadQueue, activeDownloads, pendingChecks, clock, transfers>>
            ELSE IF urgent
            THEN /\ BagCardinality(transfers) < MaxTransfers
                 /\ transfers' = transfers (+) SetToBag({NewTransfer(m1, modelId, "urgent")})
                 /\ UNCHANGED <<downloadQueue, activeDownloads, pendingChecks, clock>>
            ELSE LET S1 == addToDownloadQueue(S0, modelId, model.priority + PriorityBoost,
                                              model.downloadSize)
                 IN  /\ downloadQueue' = S1.q
                     /\ activeDownloads' = S1.active
                     /\ pendingChecks' = S1.pending
                     /\ clock' = S1.clock
                     /\ UNCHANGED transfers
  /\ UNCHANGED <<initIdx, maxStorageUsage, disk>>
  /\ UNCHANGED <<deletion, orchVars, pureVars, historyVars, obsVars>>

ConfigureProgressiveDownloading(v) ==
  /\ v # maxStorageUsage
  /\ maxStorageUsage' = v
  /\ UNCHANGED <<models, initIdx, downloadQueue, activeDownloads, pendingChecks,
                 transfers, disk, clock>>
  /\ UNCHANGED <<deletion, orchVars, pureVars, historyVars, obsVars>>

\* A pause that also forgets the downloads in flight.
PauseForgetsActive ==
  /\ CatalogLoaded
  /\ downloadQueue # << >> \/ ~paused
  /\ downloadQueue' = << >>
  /\ activeDownloads' = {}
  /\ paused' = TRUE
  /\ UNCHANGED <<models, initIdx, maxStorageUsage, pendingChecks, transfers, disk, clock>>
  /\ UNCHANGED <<deletion, orchVars, pureVars, historyVars, skipLog>>

PauseProgressiveDownloading ==
  /\ CatalogLoaded
  /\ downloadQueue # << >> \/ ~paused
  /\ downloadQueue' = << >>
  /\ paused' = TRUE
  /\ UNCHANGED <<models, initIdx, activeDownloads, maxStorageUsage, pendingChecks,
                 transfers, disk, clock>>
  /\ UNCHANGED <<deletion, orchVars, pureVars, historyVars, skipLog>>

ResumeProgressiveDownloading(limit) ==
  /\ CatalogLoaded
  /\ LET S0 == Sched(downloadQueue, activeDownloads, pendingChecks, clock)
         S1 == startProgressiveDownloading(S0, models)
     IN  /\ S1 # S0 \/ paused
         /\ S1.clock <= limit
         /\ downloadQueue' = S1.q
         /\ activeDownloads' = S1.active
         /\ pendingChecks' = S1.pending
         /\ clock' = S1.clock
  /\ paused' = FALSE
  /\ UNCHANGED <<models, initIdx, maxStorageUsage, transfers, disk>>
  /\ UNCHANGED <<deletion, orchVars, pureVars, historyVars, skipLog>>

----------------------------------------------------------------------------
(* ModelManager.processDownloadQueue after the storage check *)

\* `this.progressiveOptions.maxStorageUsage || 500 * 1024 * 1024`
EffectiveMaxUsage(configured) ==
  IF configured = 0 THEN DefaultMaxStorageUsage ELSE configured

\* getCurrentStorageUsage: the size stat reports, 0 when stat throws.
wouldExceedStorageLimit(additionalSize, statOk) ==
  (IF statOk THEN DiskUsage(disk) ELSE 0) + additionalSize
    > EffectiveMaxUsage(maxStorageUsage)

\* The continuation of `await this.wouldExceedStorageLimit(...)` for the pass
\* that holds nextItem: skip or downloadModelProgressively (activeDownloads.add
\* and downloadModel up to its first await), then the loop test again.
\* A pass that ends at the entry it skips (`break` for `continue`).
StorageCheckDoneStops(nextItem, statOk) ==
  /\ nextItem \in pendingChecks
  /\ LET exceeds == wouldExceedStorageLimit(nextItem.estimatedSize, statOk)
         active1 == IF exceeds THEN activeDownloads
                    ELSE activeDownloads \cup {nextItem.modelId}
         S0      == Sched(downloadQueue, active1, pendingChecks \ {nextItem}, clock)
         S1      == IF exceeds THEN S0 ELSE processDownloadQueue(S0)
     IN  /\ downloadQueue' = S1.q
         /\ activeDownloads' = S1.active
         /\ pendingChecks' = S1.pending
         /\ IF exceeds
            THEN UNCHANGED transfers
            ELSE transfers' = transfers (+)
                                SetToBag({NewTransfer(models, nextItem.modelId, "queue")})
         /\ skipLog' = IF exceeds THEN skipLog \cup {nextItem.modelId} ELSE skipLog
  /\ UNCHANGED <<models, initIdx, maxStorageUsage, disk, clock>>
  /\ UNCHANGED <<deletion, orchVars, pureVars, historyVars, paused>>

StorageCheckDone(nextItem, statOk) ==
  /\ nextItem \in pendingChecks
  /\ LET exceeds == wouldExceedStorageLimit(nextItem.estimatedSize, statOk)
         active1 == IF exceeds THEN activeDownloads
                    ELSE activeDownloads \cup {nextItem.modelId}
         S1      == processDownloadQueue(
                      Sched(downloadQueue, active1, pendingChecks \ {nextItem}, clock))
     IN  /\ downloadQueue' = S1.q
         /\ activeDownloads' = S1.active
         /\ pendingChecks' = S1.pending
         /\ IF exceeds
            THEN UNCHANGED transfers
            ELSE transfers' = transfers (+)
                                SetToBag({NewTransfer(models, nextItem.modelId, "queue")})
         /\ skipLog' = IF exceeds THEN skipLog \cup {nextItem.modelId} ELSE skipLog
  /\ UNCHANGED <<models, initIdx, maxStorageUsage, disk, clock>>
  /\ UNCHANGED <<deletion, orchVars, pureVars, historyVars, paused>>

----------------------------------------------------------------------------
(* TranslationService: mock translation, history records, model status *)

mockTranslations ==
  << [ phrase |-> << 104, 101, 108, 108, 111 >>,                                   \* 'hello'
       tr |-> << 109, 101, 114, 104, 97, 98, 97 >>,                                     \* 'merhaba'
       es |-> << 104, 111, 108, 97 >>,                                        \* 'hola'
       fr |-> << 98, 111, 110, 106, 111, 117, 114 >> ],                                   \* 'bonjour'
     [ phrase |-> << 116, 104, 97, 110, 107, 32, 121, 111, 117 >>,                               \* 'thank you'
       tr |-> << 116, 101, 351, 101, 107, 107, 252, 114, 32, 101, 100, 101, 114, 105, 109 >>,
       es |-> << 103, 114, 97, 99, 105, 97, 115 >>,
       fr |-> << 109, 101, 114, 99, 105 >> ],
     [ phrase |-> << 103, 111, 111, 100, 98, 121, 101 >>,                                 \* 'goodbye'
       tr |-> << 104, 111, 351, 231, 97, 32, 107, 97, 108 >>,
       es |-> << 97, 100, 105, 243, 115 >>,
       fr |-> << 97, 117, 32, 114, 101, 118, 111, 105, 114 >> ] >>

HasMockTranslation(lowerText, code) ==
  /\ code \in { "tr", "es", "fr" }
  /\ \E i \in 1..Len(mockTranslations) : mockTranslations[i].phrase = lowerText

MockTranslationOf(lowerText, code) ==
  mockTranslations[CHOOSE i \in 1..Len(mockTranslations) :
                     mockTranslations[i].phrase = lowerText][code]

MockConfidence == 100        \* 0.1

MockTimeTaken == 10

\* `[${targetLanguage.name}] ${text}`
BracketName(name, text) == << 91 >> \o name \o << 93, 32 >> \o text

mockTranslate(text, sourceLanguage, targetLanguage) ==
  LET lowerText == Trim(ToLowerCase(text))
  IN  [ translatedText |-> IF HasMockTranslation(lowerText, targetLanguage.code)
                           THEN MockTranslationOf(lowerText, targetLanguage.code)
                           ELSE BracketName(targetLanguage.name, text),
        modelId        |-> "mock",
        confidence     |-> Num(MockConfidence),
        timeTaken      |-> MockTimeTaken,
        alternatives   |-> << >> ]

\* MODEL_CONFIGS.find(config => config.srcLang === sourceCode && config.targetLang === targetCode)
HasModelForLanguagePair(sourceCode, targetCode) ==
  \E i \in 1..Len(MODEL_CONFIGS) :
    MODEL_CONFIGS[i].srcLang = sourceCode /\ MODEL_CONFIGS[i].targetLang = targetCode

getModelIdForLanguagePair(sourceCode, targetCode) ==
  IF HasModelForLanguagePair(sourceCode, targetCode)
  THEN MODEL_CONFIGS[CHOOSE i \in 1..Len(MODEL_CONFIGS) :
         /\ MODEL_CONFIGS[i].srcLang = sourceCode /\ MODEL_CONFIGS[i].targetLang = targetCode
         /\ \A j \in 1..(i - 1) :
              ~(MODEL_CONFIGS[j].srcLang = sourceCode /\ MODEL_CONFIGS[j].targetLang = targetCode)].id
  ELSE Undefined

\* MlService.findModelForLanguagePair with `find` returning the last match.
findModelForLanguagePairLast(sourceCode, targetCode) ==
  LET matches == SelectSeq(MODEL_CONFIGS,
                   LAMBDA config : config.srcLang = sourceCode /\ config.targetLang = targetCode)
  IN  IF matches # << >> THEN Some(matches[Len(matches)]) ELSE None

\* MlService.findModelForLanguagePair: Array.prototype.find returns the first
\* element that satisfies the test.
findModelForLanguagePair(sourceCode, targetCode) ==
  LET matches == SelectSeq(MODEL_CONFIGS,
                   LAMBDA config : config.srcLang = sourceCode /\ config.targetLang = targetCode)
  IN  IF matches # << >> THEN Some(Head(matches)) ELSE None

\* this.modelStatus.get(modelId)?.isDownloaded / ?.isDownloading
StatusIsDownloaded(status, modelId) ==
  modelId \in DOMAIN status /\ status[modelId].isDownloaded

StatusIsDownloading(status, modelId) ==
  modelId \in DOMAIN status /\ status[modelId].isDownloading

StatusDownloading ==
  [isDownloaded |-> FALSE, isDownloading |-> TRUE, downloadProgress |-> Some(0)]

StatusDownloaded ==
  [isDownloaded |-> TRUE, isDownloading |-> FALSE, downloadProgress |-> Some(ProgressDone)]

StatusNotDownloading ==
  [isDownloaded |-> FALSE, isDownloading |-> FALSE, downloadProgress |-> None]

\* The translate call in progress, or the last one that settled.
NoCall ==
  [ pc |-> "idle", text |-> << >>, sourceLanguage |-> LANGUAGES[1],
    targetLanguage |-> LANGUAGES[1], useOfflineOnly |-> FALSE,
    detectionConfidence |-> None, modelId |-> Undefined, branch |-> "none",
    result |-> None ]

\* The record a branch of translate passes to translationHistoryService.addTranslation.
HistoryItem(c, translatedText, modelId, translationConfidence) ==
  [ originalText          |-> c.text,
    translatedText        |-> translatedText,
    sourceLanguage        |-> c.sourceLanguage,
    targetLanguage        |-> c.targetLanguage,
    modelId               |-> modelId,
    translationConfidence |-> translationConfidence,
    detectionConfidence   |-> c.detectionConfidence,
    state                 |-> "pending" ]

\* (mutation) a branch that returns without calling addTranslation.
addTranslationSkipped(appends, item) == appends

\* translationHistoryService.addTranslation(item) is called and its promise is
\* left to settle on its own, with a .catch that logs.
addTranslation(appends, item) == Append(appends, item)

\* The outcome of a branch of translate: the settled call and its history appends.
Returned(c, branch, result, historyModelId) ==
  [ call    |-> [c EXCEPT !.pc = "returned", !.branch = branch, !.result = Some(result)],
    appends |-> addTranslation(<< >>, HistoryItem(c, result.translatedText, historyModelId,
                                                  result.confidence)) ]

\* The branches that return the mock result.
NoModelConfig(c) ==
  Returned(c, "no_model_config",
           mockTranslate(c.text, c.sourceLanguage, c.targetLanguage), "mock_no_model_config")

ModelUnavailable(c) ==
  Returned(c, "model_unavailable",
           mockTranslate(c.text, c.sourceLanguage, c.targetLanguage), "mock_model_unavailable")

\* catch (error) with fallbackToMock: the history record carries mockResult.modelId
TranslationError(c) ==
  LET mockResult == mockTranslate(c.text, c.sourceLanguage, c.targetLanguage)
  IN  Returned(c, "error", mockResult, mockResult.modelId)

\* mlService.translateText resolved with mlResult
MlTranslated(c, mlResult) == Returned(c, "ml", mlResult, mlResult.modelId)

----------------------------------------------------------------------------
(* MlService.translateText after loadModel: tokenize, runInference, dispose,
   detokenize.  Once the model is loaded nothing in this chain waits for I/O
   (predict and arraySync are synchronous), so it runs to the end in one turn.
   env is what the runtime does on this call:
     tokenizeOk      tf.tensor2d builds the input tensor
     outputs         tensors model.predict returns (0: predict throws)
     inputDisposeOk  inputTensor.dispose() returns normally
     arraySyncOk     reading the output tensor succeeds
     logits          the first batch item of the output
     timeTaken       Date.now() - startTime                                   *)

DetokenizeErrorText == << 91, 69, 114, 114, 111, 114, 32, 100, 117, 114, 105, 110, 103, 32, 100, 101, 116, 111, 107, 101, 110, 105, 122, 97, 116, 105, 111, 110, 93 >>

\* The first batch item of the output tensor
InferenceLogits == { << >>, << 72 >>, << 72, 105 >> }

\* A step the call does not reach has no outcome of its own.
InferenceEnvs ==
  { e \in [ tokenizeOk : BOOLEAN, outputs : 0..2, inputDisposeOk : BOOLEAN,
            arraySyncOk : BOOLEAN, logits : InferenceLogits, timeTaken : { 12 } ] :
      /\ ~e.tokenizeOk => e.outputs = 0 /\ e.inputDisposeOk
      /\ (e.outputs = 0 \/ ~e.inputDisposeOk) => e.arraySyncOk
      /\ (e.outputs = 0 \/ ~e.inputDisposeOk \/ ~e.arraySyncOk) => e.logits = << >> }

\* The try block of detokenize on each first batch item
Detokenized ==
  [ l \in InferenceLogits |->
      [ translatedText |-> FromCharCodes(l),
        confidence     |-> calculateTranslationConfidence(l),
        alternatives   |-> generateAlternativeTranslations(l) ] ]

\* A catch block of detokenize that returns no confidence: translateText puts 0.75.
detokenizeDefaultConfidence(env) ==
  IF env.arraySyncOk
  THEN Detokenized[env.logits]
  ELSE [ translatedText |-> DetokenizeErrorText,
         confidence     |-> Num(750),
         alternatives   |-> << >> ]

detokenize(env) ==
  IF env.arraySyncOk
  THEN Detokenized[env.logits]
  ELSE [ translatedText |-> DetokenizeErrorText,
         confidence     |-> Num(0),
         alternatives   |-> << >> ]

\* threw: the call rejects; leaked: tensors allocated by the call and still
\* live when it settles.
translateTextLoaded(modelId, env) ==
  IF ~env.tokenizeOk
  THEN [threw |-> TRUE, leaked |-> 0, result |-> None]
  ELSE IF env.outputs = 0
  THEN \* runInference: catch, input.dispose(), rethrow
       [threw |-> TRUE, leaked |-> IF env.inputDisposeOk THEN 0 ELSE 1, result |-> None]
  ELSE IF ~env.inputDisposeOk
  THEN \* inputTensor.dispose() throws: detokenize, and its finally, never run
       [threw |-> TRUE, leaked |-> 1 + env.outputs, result |-> None]
  ELSE LET d == detokenize(env)
       IN  [threw |-> FALSE, leaked |-> 0,
            result |-> Some([ translatedText |-> d.translatedText,
                              confidence     |-> d.confidence,
                              alternatives   |-> d.alternatives,
                              timeTaken      |-> env.timeTaken,
                              modelId        |-> modelId ])]

----------------------------------------------------------------------------
(* TranslationService.translate and MlService.translateText *)

\* Texts passed to translate
Texts ==
  { << 32, 72, 101, 108, 108, 111, 32 >>,           \* ' Hello '
    << 72, 101, 108, 108, 111, 32, 119, 111, 114, 108, 100 >> }      \* 'Hello world'

SourceInputs == { None, Some(FindLanguage("en")) }

TargetLanguages == { FindLanguage("tr"), FindLanguage("es") }

\* What the detectors report for a text passed to translate
TranslateDetections ==
  { [franc |-> "eng", results |-> << [lang |-> [base |-> "en", region |-> ""], prob |-> 300] >>,
     throws |-> FALSE],
    [franc |-> "und", results |-> << >>, throws |-> FALSE] }

Settle(o) ==
  /\ call' = o.call
  /\ callAppends' = o.appends

\* The object `await tf.loadGraphModel(...)` returns is a new one at every call.
NewHandle(modelId) ==
  IF modelId \in DOMAIN activeModels THEN activeModels[modelId] + 1 ELSE 1

\* translateText from the tokenizer on, and translate's continuation
RunLoaded(c, env) ==
  LET r == translateTextLoaded(c.modelId, env)
  IN  /\ Settle(IF r.threw THEN TranslationError(c) ELSE MlTranslated(c, r.result[1]))
      /\ liveTensors' = liveTensors + r.leaked

\* mlService.translateText: loadModel up to the first wait for I/O.  tfOk is
\* the outcome of tf.ready() when the backend is not initialised yet.
LoadModel(c) ==
  \E tfOk \in BOOLEAN :
    IF ~isTfReady /\ ~tfOk
    THEN /\ Settle(TranslationError(c))
         /\ UNCHANGED <<isTfReady, activeModels, liveTensors, transfers>>
    ELSE /\ isTfReady' = TRUE
         /\ IF c.modelId \in DOMAIN activeModels
            THEN /\ \E env \in InferenceEnvs : RunLoaded(c, env)
                 /\ UNCHANGED <<activeModels, transfers>>
            ELSE IF c.modelId \notin DOMAIN models
            THEN /\ Settle(TranslationError(c))
                 /\ UNCHANGED <<activeModels, liveTensors, transfers>>
            ELSE IF ~models[c.modelId].isDownloaded
            THEN \* modelManager.getModel returns this.downloadModel(modelId)
                 /\ transfers' = transfers (+) SetToBag({NewTransfer(models, c.modelId, "load")})
                 /\ call' = [c EXCEPT !.pc = "download"]
                 /\ callAppends' = << >>
                 /\ UNCHANGED <<activeModels, liveTensors>>
            ELSE IF models[c.modelId].localPath = Undefined
            THEN /\ Settle(TranslationError(c))
                 /\ UNCHANGED <<activeModels, liveTensors, transfers>>
            ELSE \* await tf.loadGraphModel(...)
                 /\ call' = [c EXCEPT !.pc = "tfload"]
                 /\ callAppends' = << >>
                 /\ UNCHANGED <<activeModels, liveTensors, transfers>>

\* A download started without the status being set to downloading.
StartDownloadUnmarked(modelId, origin) ==
  /\ modelStatus' = modelStatus
  /\ transfers' = transfers (+) SetToBag({NewTransfer(models, modelId, origin)})

\* TranslationService.downloadModel up to `await modelManager.downloadModel(modelId)`
StartDownload(modelId, origin) ==
  /\ modelStatus' = (modelId :> StatusDownloading) @@ modelStatus
  /\ transfers' = transfers (+) SetToBag({NewTransfer(models, modelId, origin)})

Translate(text, sourceLanguageInput, targetLanguage, useOfflineOnly) ==
  /\ call.pc \in {"idle", "returned"}
  /\ liveTensors < MaxLeakedTensors
  /\ \E det \in IF sourceLanguageInput = None /\ Len(Trim(text)) >= minTextLength
                THEN TranslateDetections
                ELSE { CHOOSE d \in TranslateDetections : TRUE } :
       LET detectionResult == detectLanguage(text, det)
           sourceLanguage  == IF sourceLanguageInput = None
                              THEN detectionResult.detectedLanguage
                              ELSE sourceLanguageInput[1]
           modelId == getModelIdForLanguagePair(sourceLanguage.code, targetLanguage.code)
           c == [ pc |-> "running", text |-> text, sourceLanguage |-> sourceLanguage,
                  targetLanguage |-> targetLanguage, useOfflineOnly |-> useOfflineOnly,
                  detectionConfidence |-> IF sourceLanguageInput = None
                                          THEN Some(detectionResult.confidence) ELSE None,
                  modelId |-> modelId, branch |-> "none", result |-> None ]
       IN  IF modelId = Undefined
           THEN /\ Settle(NoModelConfig(c))
                /\ UNCHANGED <<modelStatus, transfers, isTfReady, activeModels, liveTensors>>
           ELSE IF ~StatusIsDownloaded(modelStatus, modelId)
           THEN /\ Settle(ModelUnavailable(c))
                /\ IF ~StatusIsDownloading(modelStatus, modelId) /\ ~useOfflineOnly
                   THEN StartDownload(modelId, "translate")
                   ELSE UNCHANGED <<modelStatus, transfers>>
                /\ UNCHANGED <<isTfReady, activeModels, liveTensors>>
           ELSE /\ LoadModel(c)
                /\ UNCHANGED modelStatus
  /\ UNCHANGED <<models, initIdx, downloadQueue, activeDownloads, maxStorageUsage,
                 pendingChecks, disk, clock, deletion, unhandled, downloadCall, loadCalls, pureVars, historyVars, obsVars>>

\* The continuation of `await tf.loadGraphModel(...)` in loadModel, then the
\* rest of translateText and of translate.
LoadGraphModelDone(ok) ==
  /\ call.pc = "tfload"
  /\ IF ok
     THEN /\ activeModels' = (call.modelId :> NewHandle(call.modelId)) @@ activeModels
          /\ \E env \in InferenceEnvs : RunLoaded(call, env)
     ELSE /\ Settle(TranslationError(call))
          /\ UNCHANGED <<activeModels, liveTensors>>
  /\ UNCHANGED <<schedVars, modelStatus, isTfReady, unhandled, downloadCall, loadCalls, pureVars, historyVars, obsVars>>

\* MlService.loadModel(modelId, forceReload) called by the application, up to
\* its return, its throw or its first wait for I/O.  tfOk is the outcome of
\* tf.ready() when the backend is not initialised yet.
LoadModelCall(k, modelId, forceReload) ==
  /\ loadCalls[k].pc \in {"idle", "resolved", "rejected"}
  /\ (forceReload /\ modelId \in DOMAIN activeModels) => activeModels[modelId] < MaxHandles
  /\ LET c == [pc |-> "running", id |-> modelId, forceReload |-> forceReload, handle |-> None]
         settled(pc, handle) == [loadCalls EXCEPT ![k] = [c EXCEPT !.pc = pc, !.handle = handle]]
     IN  \E tfOk \in BOOLEAN :
           IF ~isTfReady /\ ~tfOk
           THEN /\ loadCalls' = settled("rejected", None)
                /\ UNCHANGED <<isTfReady, transfers>>
           ELSE /\ isTfReady' = TRUE
                /\ IF modelId \in DOMAIN activeModels /\ ~forceReload
                   THEN /\ loadCalls' = settled("resolved", Some(activeModels[modelId]))
                        /\ UNCHANGED transfers
                   ELSE IF modelId \notin DOMAIN models
                   THEN /\ loadCalls' = settled("rejected", None)
                        /\ UNCHANGED transfers
                   ELSE IF ~models[modelId].isDownloaded
                   THEN \* modelManager.getModel returns this.downloadModel(modelId)
                        /\ transfers' = transfers (+) SetToBag({NewTransfer(models, modelId, "loadModel")})
                        /\ loadCalls' = settled("download", None)
                   ELSE IF models[modelId].localPath = Undefined
                   THEN /\ loadCalls' = settled("rejected", None)
                        /\ UNCHANGED transfers
                   ELSE \* await tf.loadGraphModel(...)
                        /\ loadCalls' = settled("tfload", None)
                        /\ UNCHANGED transfers
  /\ UNCHANGED <<models, initIdx, downloadQueue, activeDownloads, maxStorageUsage,
                 pendingChecks, disk, clock, deletion>>
  /\ UNCHANGED <<modelStatus, activeModels, call, callAppends, liveTensors, unhandled,
                 downloadCall, pureVars, historyVars, obsVars>>

\* The continuation of `await tf.loadGraphModel(...)` in a direct loadModel
\* call: the handle is stored and returned, or the catch block rethrows.
LoadModelCallDone(k, ok) ==
  /\ loadCalls[k].pc = "tfload"
  /\ LET id == loadCalls[k].id
     IN  IF ok
         THEN /\ activeModels' = (id :> NewHandle(id)) @@ activeModels
              /\ loadCalls' = [loadCalls EXCEPT ![k].pc = "resolved",
                                                ![k].handle = Some(NewHandle(id))]
         ELSE /\ loadCalls' = [loadCalls EXCEPT ![k].pc = "rejected"]
              /\ UNCHANGED activeModels
  /\ UNCHANGED <<schedVars, modelStatus, isTfReady, call, callAppends, liveTensors,
                 unhandled, downloadCall, pureVars, historyVars, obsVars>>

\* The promise of addTranslation settles; a rejection goes to the .catch that logs.
AppendSettle(i, ok) ==
  /\ i \in 1..Len(callAppends)
  /\ callAppends[i].state = "pending"
  /\ callAppends' = [callAppends EXCEPT ![i].state = IF ok THEN "resolved" ELSE "logged"]
  /\ UNCHANGED <<schedVars, modelStatus, activeModels, isTfReady, call, liveTensors,
                 unhandled, downloadCall, loadCalls, pureVars, historyVars, obsVars>>

\* TranslationService.downloadModel called by the application, up to its throw
\* or to `await modelManager.downloadModel(modelId)`.  One such call is followed
\* at a time.
DownloadModel(sourceCode, targetCode) ==
  /\ downloadCall.pc # "pending"
  /\ LET modelId == getModelIdForLanguagePair(sourceCode, targetCode)
     IN  IF modelId = Undefined
         THEN /\ downloadCall' = [pc |-> "thrown", id |-> Undefined,
                                   pair |-> <<sourceCode, targetCode>>]
              /\ UNCHANGED <<modelStatus, transfers>>
         ELSE /\ downloadCall' = [pc |-> "pending", id |-> modelId,
                                   pair |-> <<sourceCode, targetCode>>]
              /\ StartDownload(modelId, "download")
  /\ UNCHANGED <<models, initIdx, downloadQueue, activeDownloads, maxStorageUsage,
                 pendingChecks, disk, clock, deletion>>
  /\ UNCHANGED <<activeModels, isTfReady, call, callAppends, liveTensors, unhandled, loadCalls>>
  /\ UNCHANGED <<pureVars, historyVars, obsVars>>

\* A catch block of TranslationService.downloadModel that leaves the status as it is.
OrchestratorAfterTransferKeepsStatus(t, ok) ==
  CASE t.origin \in {"queue", "urgent"} ->
         UNCHANGED orchVars
    [] t.origin = "translate" ->
         /\ modelStatus' = (t.id :> IF ok THEN StatusDownloaded ELSE StatusNotDownloading)
                             @@ modelStatus
         /\ unhandled' = IF ok THEN unhandled ELSE unhandled \cup {t.id}
         /\ UNCHANGED <<activeModels, isTfReady, call, callAppends, liveTensors, downloadCall, loadCalls>>
    [] t.origin = "download" ->
         /\ modelStatus' = IF ok THEN (t.id :> StatusDownloaded) @@ modelStatus
                                 ELSE modelStatus
         /\ downloadCall' = [downloadCall EXCEPT !.pc = IF ok THEN "resolved" ELSE "rejected"]
         /\ UNCHANGED <<activeModels, isTfReady, call, callAppends, liveTensors, unhandled, loadCalls>>
    [] t.origin = "load" ->
         /\ IF ok
            THEN /\ call' = [call EXCEPT !.pc = "tfload"]
                 /\ UNCHANGED callAppends
            ELSE Settle(TranslationError(call))
         /\ UNCHANGED <<modelStatus, activeModels, isTfReady, liveTensors, unhandled,
                        downloadCall, loadCalls>>
    [] t.origin = "loadModel" ->
         /\ \E k \in 1..MaxLoadCalls :
              /\ loadCalls[k].pc = "download"
              /\ loadCalls[k].id = t.id
              /\ loadCalls' = [loadCalls EXCEPT ![k].pc = IF ok THEN "tfload" ELSE "rejected"]
         /\ UNCHANGED <<modelStatus, activeModels, isTfReady, call, callAppends, liveTensors,
                        unhandled, downloadCall>>

\* What the caller of modelManager.downloadModel does when the promise settles.
\*   queue, urgent: nothing outside the manager
\*   translate:     TranslationService.downloadModel, called by translate and
\*                  not awaited: the status is set; on failure it rethrows and
\*                  nothing handles the rejection
\*   load:          loadModel, awaited by the translate call in progress
\*   loadModel:     loadModel called by the application, which awaits it
OrchestratorAfterTransfer(t, ok) ==
  CASE t.origin \in {"queue", "urgent"} ->
         UNCHANGED orchVars
    [] t.origin = "translate" ->
         /\ modelStatus' = (t.id :> IF ok THEN StatusDownloaded ELSE StatusNotDownloading)
                             @@ modelStatus
         /\ unhandled' = IF ok THEN unhandled ELSE unhandled \cup {t.id}
         /\ UNCHANGED <<activeModels, isTfReady, call, callAppends, liveTensors, downloadCall, loadCalls>>
    [] t.origin = "download" ->
         /\ modelStatus' = (t.id :> IF ok THEN StatusDownloaded ELSE StatusNotDownloading)
                             @@ modelStatus
         /\ downloadCall' = [downloadCall EXCEPT !.pc = IF ok THEN "resolved" ELSE "rejected"]
         /\ UNCHANGED <<activeModels, isTfReady, call, callAppends, liveTensors, unhandled, loadCalls>>
    [] t.origin = "load" ->
         /\ IF ok
            THEN /\ call' = [call EXCEPT !.pc = "tfload"]
                 /\ UNCHANGED callAppends
            ELSE Settle(TranslationError(call))
         /\ UNCHANGED <<modelStatus, activeModels, isTfReady, liveTensors, unhandled,
                        downloadCall, loadCalls>>
    [] t.origin = "loadModel" ->
         /\ \E k \in 1..MaxLoadCalls :
              /\ loadCalls[k].pc = "download"
              /\ loadCalls[k].id = t.id
              /\ loadCalls' = [loadCalls EXCEPT ![k].pc = IF ok THEN "tfload" ELSE "rejected"]
         /\ UNCHANGED <<modelStatus, activeModels, isTfReady, call, callAppends, liveTensors,
                        unhandled, downloadCall>>

----------------------------------------------------------------------------
(* ModelManager.downloadModel: the transfer settles *)

\* The continuation in downloadModelProgressively (finally): remove the id
\* and run processDownloadQueue.  Other callers only receive the outcome.
\* A finally block that removes the id and does not run the queue again.
AfterTransferStops(t) ==
  IF t.origin = "queue"
  THEN Sched(downloadQueue, activeDownloads \ {t.id}, pendingChecks, clock)
  ELSE Sched(downloadQueue, activeDownloads, pendingChecks, clock)

AfterTransfer(t) ==
  IF t.origin = "queue"
  THEN processDownloadQueue(
         Sched(downloadQueue, activeDownloads \ {t.id}, pendingChecks, clock))
  ELSE Sched(downloadQueue, activeDownloads, pendingChecks, clock)

\* The progress callback of FileSystem.downloadFile, progress being
\* bytesWritten / contentLength in percent: bytesWritten does not
\* decrease within one transfer; the model entry is rebuilt from the
\* modelConfig that downloadModel read when it started.
TransferProgress(t, progress) ==
  /\ BagIn(t, transfers)
  /\ t.kind = "real"
  /\ progress >= t.bytesWritten
  /\ transfers' = (transfers (-) SetToBag({t}))
                    (+) SetToBag({[t EXCEPT !.bytesWritten = progress]})
  /\ models' = [models EXCEPT ![t.id] =
                  [t.snap[1] EXCEPT !.downloadProgress = Some(progress)]]
  /\ UNCHANGED <<initIdx, downloadQueue, activeDownloads, maxStorageUsage,
                 pendingChecks, disk, clock>>
  /\ UNCHANGED <<deletion, orchVars, pureVars, historyVars, obsVars>>

\* A completion that marks the entry downloaded and stores no path.
TransferCompleteNoPath(t) ==
  /\ BagIn(t, transfers)
  /\ t.kind \in {"real", "already"}
  /\ transfers' = transfers (-) SetToBag({t})
  /\ IF t.kind = "real"
     THEN /\ models' = [models EXCEPT ![t.id] =
                          [t.snap[1] EXCEPT !.id = t.id,
                                            !.localPath = Undefined,
                                            !.isDownloaded = TRUE,
                                            !.downloadProgress = Some(ProgressDone)]]
          /\ disk' = disk \cup {t.id}
     ELSE UNCHANGED <<models, disk>>
  /\ LET S1 == AfterTransfer(t)
     IN  /\ downloadQueue' = S1.q
         /\ activeDownloads' = S1.active
         /\ pendingChecks' = S1.pending
  /\ UNCHANGED <<initIdx, maxStorageUsage, clock>>
  /\ OrchestratorAfterTransfer(t, TRUE)
  /\ UNCHANGED <<deletion, pureVars, historyVars, obsVars>>

TransferComplete(t) ==
  /\ BagIn(t, transfers)
  /\ t.kind \in {"real", "already"}
  /\ transfers' = transfers (-) SetToBag({t})
  /\ IF t.kind = "real"
     THEN /\ models' = [models EXCEPT ![t.id] =
                          [t.snap[1] EXCEPT !.id = t.id,
                                            !.localPath = ModelJsonPath(t.id),
                                            !.isDownloaded = TRUE,
                                            !.downloadProgress = Some(ProgressDone)]]
          /\ disk' = disk \cup {t.id}
     ELSE UNCHANGED <<models, disk>>
  /\ LET S1 == AfterTransfer(t)
     IN  /\ downloadQueue' = S1.q
         /\ activeDownloads' = S1.active
         /\ pendingChecks' = S1.pending
  /\ UNCHANGED <<initIdx, maxStorageUsage, clock>>
  /\ OrchestratorAfterTransfer(t, TRUE)
  /\ UNCHANGED <<deletion, pureVars, historyVars, obsVars>>

TransferFail(t) ==
  /\ BagIn(t, transfers)
  /\ t.kind \in {"real", "notfound"}
  /\ transfers' = transfers (-) SetToBag({t})
  /\ LET S1 == AfterTransfer(t)
     IN  /\ downloadQueue' = S1.q
         /\ activeDownloads' = S1.active
         /\ pendingChecks' = S1.pending
  /\ UNCHANGED <<models, initIdx, maxStorageUsage, disk, clock>>
  /\ OrchestratorAfterTransfer(t, FALSE)
  /\ UNCHANGED <<deletion, pureVars, historyVars, obsVars>>

----------------------------------------------------------------------------
(* ModelManager.deleteModel *)

\* deleteModel up to `await FileSystem.unlink(modelDir)`, or to its early
\* return.  One call is followed at a time; a settled
\* call keeps its outcome and forgets its argument.  modelInfo is the entry
\* the call read, which its continuation spreads into the entry it stores.
DeleteModel(modelId) ==
  /\ deletion.pc # "unlink"
  /\ LET isNoop == \/ modelId \notin DOMAIN models
                   \/ ~models[modelId].isDownloaded
                   \/ models[modelId].localPath = Undefined
     IN  deletion' = IF isNoop THEN [pc |-> "noop", id |-> Undefined, modelInfo |-> None]
                               ELSE [pc |-> "unlink", id |-> modelId,
                                     modelInfo |-> Some(models[modelId])]
  /\ UNCHANGED <<models, initIdx, downloadQueue, activeDownloads, maxStorageUsage,
                 pendingChecks, transfers, disk, clock>>
  /\ UNCHANGED <<orchVars, pureVars, historyVars, obsVars>>

\* A continuation that leaves downloadProgress as it was.
UnlinkDoneKeepsProgress(ok) ==
  /\ deletion.pc = "unlink"
  /\ deletion' = [pc |-> IF ok THEN "resolved" ELSE "rejected", id |-> Undefined,
                  modelInfo |-> None]
  /\ IF ok
     THEN /\ models' = [models EXCEPT ![deletion.id] =
                          [deletion.modelInfo[1] EXCEPT
                                    !.id = deletion.id,
                                    !.localPath = Undefined,
                                    !.isDownloaded = FALSE]]
          /\ disk' = disk \ {deletion.id}
     ELSE UNCHANGED <<models, disk>>
  /\ UNCHANGED <<initIdx, downloadQueue, activeDownloads, maxStorageUsage,
                 pendingChecks, transfers, clock>>
  /\ UNCHANGED <<orchVars, pureVars, historyVars, obsVars>>

\* The continuation of `await FileSystem.unlink(modelDir)`: the entry is
\* stored again with the three fields reset, or the error is rethrown.
UnlinkDone(ok) ==
  /\ deletion.pc = "unlink"
  /\ deletion' = [pc |-> IF ok THEN "resolved" ELSE "rejected", id |-> Undefined,
                  modelInfo |-> None]
  /\ IF ok
     THEN /\ models' = [models EXCEPT ![deletion.id] =
                          [deletion.modelInfo[1] EXCEPT
                                    !.id = deletion.id,
                                    !.localPath = Undefined,
                                    !.isDownloaded = FALSE,
                                    !.downloadProgress = None]]
          /\ disk' = disk \ {deletion.id}
     ELSE UNCHANGED <<models, disk>>
  /\ UNCHANGED <<initIdx, downloadQueue, activeDownloads, maxStorageUsage,
                 pendingChecks, transfers, clock>>
  /\ UNCHANGED <<orchVars, pureVars, historyVars, obsVars>>

----------------------------------------------------------------------------
(* The pure functions applied to every input of a bounded domain *)

LogitValues == { -72, 0, 1, 3 }

LangdetectCodes ==
  { [base |-> "en", region |-> ""], [base |-> "tr", region |-> ""],
    [base |-> "es", region |-> "419"], [base |-> "zh", region |-> "cn"],
    [base |-> "fr", region |-> ""] }

\* The lists langdetect returns: each code once, most probable first;
\* probabilities in thousandths.
LangdetectResults ==
  LET Probabilities == { 0, 300, 1000 } IN
  { r \in UNION { [1..n -> [lang : LangdetectCodes, prob : Probabilities]] :
                    n \in 0..MaxDetections } :
      \A i, j \in 1..Len(r) : i < j => (r[i].lang # r[j].lang /\ r[i].prob >= r[j].prob) }

NoArg == [fn |-> "none", logits |-> << >>, text |-> << >>, det |-> [franc |-> "und", results |-> << >>, throws |-> FALSE],
          config |-> MODEL_CONFIGS[1], pair |-> <<"en", "en">>,
          modelId |-> MODEL_CONFIGS[1].id, loadOk |-> TRUE,
          env |-> CHOOSE e \in InferenceEnvs : ~e.tokenizeOk]

\* The arguments of the functions applied in SpecConfidence.  Detection: the
\* texts of translate, the empty text, and 'Hello' between blanks (twelve
\* characters, five after trim).  Priority: languages of the popularity table
\* and one outside it, sizes on both sides of 50MB, size 0 for a missing size.
PureArgs ==
  LET FrancCodes      == { "eng", "tur", "fra", "und" }
      DetectionTexts  ==
        Texts \cup { << >>, << 32, 32, 32, 72, 101, 108, 108, 111, 32, 32, 32, 32 >> }
      PriorityConfigs ==
        { [id |-> "model", size |-> s, srcLang |-> a, targetLang |-> b] :
            s \in {0, 25, 50, 51, 65}, a \in {"en", "tr", "es", "sv", "xx"},
            b \in {"en", "tr", "es", "sv", "xx"} }
  IN
  { [NoArg EXCEPT !.fn = "confidence", !.logits = l] : l \in UNION { [1..n -> LogitValues] : n \in 0..MaxLogits } }
  \cup
  { [NoArg EXCEPT !.fn = "detect", !.text = x,
                  !.det = [franc |-> f, results |-> r, throws |-> th]] :
      x \in DetectionTexts, f \in FrancCodes, r \in LangdetectResults, th \in BOOLEAN }
  \cup
  { [NoArg EXCEPT !.fn = "priority", !.config = c] :
      c \in PriorityConfigs \cup { MODEL_CONFIGS[i] : i \in 1..Len(MODEL_CONFIGS) } }
  \cup
  { [NoArg EXCEPT !.fn = "alternatives", !.logits = l] :
      l \in UNION { [1..n -> LogitValues] : n \in 0..MaxPredictions } }
  \cup
  { [NoArg EXCEPT !.fn = "translateText", !.modelId = id, !.loadOk = ok, !.env = e] :
      id \in ModelIds \cup {"es2en"}, ok \in BOOLEAN, e \in InferenceEnvs }
  \cup
  { [NoArg EXCEPT !.fn = "resolve", !.pair = <<a, b>>] :
      a \in {"en", "tr", "es", "xx"}, b \in {"en", "tr", "es", "xx"} }

NoResult == [done |-> FALSE, confidence |-> Num(0), detection |-> createDefaultResult,
             priority |-> 0, modelConfig |-> None, modelId |-> Undefined,
             detectorsCalled |-> FALSE, alternatives |-> << >>,
             translation |-> [threw |-> FALSE, leaked |-> 0, result |-> None]]

CalculateModelPriority ==
  /\ pureArg.fn = "priority"
  /\ ~pureRet.done
  /\ pureRet' = [NoResult EXCEPT !.done = TRUE,
                                 !.priority = calculateModelPriority(pureArg.config)]
  /\ UNCHANGED <<schedVars, orchVars, pureArg, historyVars, obsVars>>

\* Both resolvers applied to one language pair.
FindModelForLanguagePair ==
  /\ pureArg.fn = "resolve"
  /\ ~pureRet.done
  /\ pureRet' = [NoResult EXCEPT
                    !.done = TRUE,
                    !.modelConfig = findModelForLanguagePair(pureArg.pair[1], pureArg.pair[2]),
                    !.modelId = getModelIdForLanguagePair(pureArg.pair[1], pureArg.pair[2])]
  /\ UNCHANGED <<schedVars, orchVars, pureArg, historyVars, obsVars>>

GenerateAlternativeTranslations ==
  /\ pureArg.fn = "alternatives"
  /\ ~pureRet.done
  /\ pureRet' = [NoResult EXCEPT
                    !.done = TRUE,
                    !.alternatives = generateAlternativeTranslations(pureArg.logits)]
  /\ UNCHANGED <<schedVars, orchVars, pureArg, historyVars, obsVars>>

\* MlService.translateText: the catalog lookup and `await this.loadModel` throw
\* inside the try block, whose catch rethrows; then the chain on the loaded model.
TranslateText ==
  /\ pureArg.fn = "translateText"
  /\ ~pureRet.done
  /\ pureRet' = [NoResult EXCEPT
                    !.done = TRUE,
                    !.translation =
                       IF pureArg.modelId \notin ModelIds \/ ~pureArg.loadOk
                       THEN [threw |-> TRUE, leaked |-> 0, result |-> None]
                       ELSE translateTextLoaded(pureArg.modelId, pureArg.env)]
  /\ UNCHANGED <<schedVars, orchVars, pureArg, historyVars, obsVars>>

CalculateTranslationConfidence ==
  /\ pureArg.fn = "confidence"
  /\ ~pureRet.done
  /\ pureRet' = [NoResult EXCEPT !.done = TRUE,
                                 !.confidence = calculateTranslationConfidence(pureArg.logits)]
  /\ UNCHANGED <<schedVars, orchVars, pureArg, historyVars, obsVars>>

DetectLanguage ==
  /\ pureArg.fn = "detect"
  /\ ~pureRet.done
  \* the detectors are called inside the try block, after the early return
  /\ pureRet' = [NoResult EXCEPT
                    !.done = TRUE,
                    !.detection = detectLanguage(pureArg.text, pureArg.det),
                    !.detectorsCalled = ~(Len(Trim(pureArg.text)) < minTextLength)]
  /\ UNCHANGED <<schedVars, orchVars, pureArg, historyVars, obsVars>>

----------------------------------------------------------------------------
(* TranslationHistoryService.  A record is named by a number: its id is
   Date.now() followed by a random suffix, unique to the call that made it. *)

\* addTranslation(item) up to its first wait for I/O: `await this._ensureLoaded()`
\* starts a load of its own while isLoaded is false; otherwise the record is
\* put at the head of the array and the array is serialised and written.
AddTranslation(rec) ==
  /\ \A o \in historyOps : ~(o.op = "addTranslation" /\ o.rec = rec)
  /\ IF isLoaded
     THEN /\ history' = << rec >> \o history
          /\ historyOps' = historyOps \cup
                { [op |-> "addTranslation", rec |-> rec, pc |-> "writeFile",
                   content |-> Some(<< rec >> \o history), atClear |-> "none"] }
     ELSE /\ historyOps' = historyOps \cup
                { [op |-> "addTranslation", rec |-> rec, pc |-> "exists",
                   content |-> None, atClear |-> "none"] }
          /\ UNCHANGED history
  /\ UNCHANGED <<isLoaded, historyFile>>
  /\ UNCHANGED <<schedVars, orchVars, pureVars, obsVars>>

\* clearHistory up to `await FileSystem.writeFile`: it does not wait for a
\* load.  atClear records, for each addTranslation call, whether its record
\* was in the array that this call emptied, and whether the call had resolved.
ClearHistory ==
  /\ \A o \in historyOps : o.op # "clearHistory"
  /\ history' = << >>
  /\ historyOps' =
        { IF o.op = "addTranslation" /\ o.pc \in {"writeFile", "resolved"}
          THEN [o EXCEPT !.atClear = o.pc] ELSE o : o \in historyOps }
        \cup { [op |-> "clearHistory", rec |-> 0, pc |-> "writeFile",
                content |-> Some(<< >>), atClear |-> "none"] }
  /\ UNCHANGED <<isLoaded, historyFile>>
  /\ UNCHANGED <<schedVars, orchVars, pureVars, obsVars>>

\* The continuation of an await in _loadHistoryFromFile, ok being whether the
\* awaited promise resolved (readFile and JSON.parse counted together), and
\* then the rest of the caller: the constructor has none, addTranslation puts
\* its record at the head and writes the array.
LoadHistoryFromFile(o, ok) ==
  /\ o \in historyOps
  /\ o.pc \in {"exists", "readFile"}
  /\ IF o.pc = "exists" /\ ok /\ historyFile # None
     THEN /\ historyOps' = (historyOps \ {o}) \cup {[o EXCEPT !.pc = "readFile"]}
          /\ UNCHANGED <<history, isLoaded>>
     ELSE LET loaded == IF o.pc = "readFile" /\ ok THEN historyFile[1] ELSE << >>
              array  == IF o.op = "addTranslation" THEN << o.rec >> \o loaded ELSE loaded
          IN  /\ history' = array
              /\ isLoaded' = TRUE
              /\ historyOps' = (historyOps \ {o}) \cup
                    { IF o.op = "addTranslation"
                      THEN [o EXCEPT !.pc = "writeFile", !.content = Some(array)]
                      ELSE [o EXCEPT !.pc = "resolved"] }
  /\ UNCHANGED historyFile
  /\ UNCHANGED <<schedVars, orchVars, pureVars, obsVars>>

\* The continuation of `await FileSystem.writeFile` in _saveHistoryToFile: a
\* failure is logged, and the call that saved resolves either way.
SaveHistoryToFile(o, ok) ==
  /\ o \in historyOps
  /\ o.pc = "writeFile"
  /\ historyFile' = IF ok THEN o.content ELSE historyFile
  /\ historyOps' = (historyOps \ {o}) \cup {[o EXCEPT !.pc = "resolved", !.content = None]}
  /\ UNCHANGED <<history, isLoaded>>
  /\ UNCHANGED <<schedVars, orchVars, pureVars, obsVars>>

----------------------------------------------------------------------------
(* Initial states *)

\* TranslationService.initialize runs in the constructor, when the manager's
\* map is still empty: the status map starts empty.  The constructor of
\* TranslationHistoryService has called _loadHistoryFromFile, which waits for
\* FileSystem.exists; file is what an earlier session left on disk.
InitServices(file) ==
  /\ modelStatus = << >>
  /\ activeModels = << >>
  /\ isTfReady = FALSE
  /\ call = NoCall
  /\ callAppends = << >>
  /\ liveTensors = 0
  /\ unhandled = {}
  /\ downloadCall = [pc |-> "idle", id |-> Undefined, pair |-> <<"en", "en">>]
  /\ loadCalls = [k \in 1..MaxLoadCalls |->
                   [pc |-> "idle", id |-> Undefined, forceReload |-> FALSE, handle |-> None]]
  /\ history = << >>
  /\ isLoaded = FALSE
  /\ historyFile = file
  /\ historyOps = { [op |-> "constructor", rec |-> 0, pc |-> "exists", content |-> None,
                     atClear |-> "none"] }

InitOrch == InitServices(None)

InitPure ==
  /\ pureArg = NoArg
  /\ pureRet = NoResult

Init == InitSched /\ InitOrch /\ InitPure

\* The application at rest after start-up, where translate is called: the
\* catalog is loaded and the start-up downloads have settled.  Either every
\* model file was found on disk (nothing was enqueued), or none was and the
\* three downloads start-up enqueued have failed.
LoadedModels(d) == [id \in ModelIds |-> NewModelInfo(ConfigOf(id), id \in d)]

InitLoaded ==
  /\ disk \in { ModelIds, {} }
  /\ models = LoadedModels(disk)
  /\ initIdx = Len(MODEL_CONFIGS)
  /\ downloadQueue = << >>
  /\ activeDownloads = {}
  /\ maxStorageUsage = DefaultMaxStorageUsage
  /\ pendingChecks = {}
  /\ transfers = EmptyBag
  /\ clock = IF disk = {} THEN Len(MODEL_CONFIGS) ELSE 0
  /\ deletion = [pc |-> "idle", id |-> Undefined, modelInfo |-> None]
  /\ paused = FALSE
  /\ skipLog = {}

InitTranslate == InitLoaded /\ InitOrch /\ InitPure

\* The history store at start-up, with no file or with the file of an earlier
\* session that holds one record, numbered 0.
InitHistory ==
  /\ InitSched
  /\ \E file \in { None, Some(<< 0 >>) } : InitServices(file)
  /\ InitPure

\* The pure functions: one input of the bounded domain, not yet applied.
InitConfidence ==
  /\ InitSched
  /\ InitOrch
  /\ pureArg \in PureArgs
  /\ pureRet = NoResult

----------------------------------------------------------------------------
(* The scheduler under every interleaving of its operations *)

\* The queue under enqueue, admission, completion and resume (pause, which
\* only empties the queue, is an action of SpecPause).
NextQueue ==
  \/ LoadConfig
  \/ \E id \in QueueIds, p \in EnqueuePriorities : AddToDownloadQueue(id, p, MaxQueueEnqueues)
  \/ ResumeProgressiveDownloading(MaxQueueEnqueues)
  \/ \E item \in pendingChecks, statOk \in BOOLEAN : StorageCheckDone(item, statOk)
  \/ \E t \in BagToSet(transfers) : TransferComplete(t)
  \/ \E t \in BagToSet(transfers) : TransferFail(t)

SpecQueue == Init /\ [][NextQueue]_vars

\* The scheduler under requests, enqueues, resume and reconfiguration.
Next ==
  \/ LoadConfig
  \/ \E id \in ModelIds, p \in EnqueuePriorities : AddToDownloadQueue(id, p, MaxEnqueues)
  \/ \E id \in ModelIds, urgent \in BOOLEAN : RequestModel(id, urgent)
  \/ \E v \in StorageOptions : ConfigureProgressiveDownloading(v)
  \/ ResumeProgressiveDownloading(MaxEnqueues)
  \/ \E item \in pendingChecks, statOk \in BOOLEAN : StorageCheckDone(item, statOk)
  \/ \E t \in BagToSet(transfers) : TransferComplete(t)
  \/ \E t \in BagToSet(transfers) : TransferFail(t)

Spec == Init /\ [][Next]_vars

----------------------------------------------------------------------------
(* The orchestrator: translate calls, transfers settling, model deletion *)

NextTranslate ==
  \/ \E text \in Texts, src \in SourceInputs, tgt \in TargetLanguages, offline \in BOOLEAN :
       Translate(text, src, tgt, offline)
  \/ \E ok \in BOOLEAN : LoadGraphModelDone(ok)
  \/ \E i \in 1..Len(callAppends), ok \in BOOLEAN : AppendSettle(i, ok)
  \/ \E t \in BagToSet(transfers) : TransferComplete(t)
  \/ \E t \in BagToSet(transfers) : TransferFail(t)
  \/ \E id \in {"en2tr-small", "tr2en-small"} : DeleteModel(id)
  \/ \E ok \in BOOLEAN : UnlinkDone(ok)

SpecTranslate == InitTranslate /\ [][NextTranslate]_vars

\* Direct downloads of the application, with models deleted in between.
NextDownload ==
  \/ \E src \in {"en", "tr", "es"}, tgt \in {"en", "tr", "es"} : DownloadModel(src, tgt)
  \/ \E t \in BagToSet(transfers) : TransferComplete(t)
  \/ \E t \in BagToSet(transfers) : TransferFail(t)
  \/ \E id \in {"en2tr-small", "tr2en-small"} : DeleteModel(id)
  \/ \E ok \in BOOLEAN : UnlinkDone(ok)

SpecDownload == InitTranslate /\ [][NextDownload]_vars

\* mlService.loadModel called by the application, by up to MaxLoadCalls
\* callers at a time, with and without forceReload.
NextLoad ==
  \/ \E k \in 1..MaxLoadCalls, id \in {"en2tr-small", "tr2en-small", "es2en"}, forceReload \in BOOLEAN :
       LoadModelCall(k, id, forceReload)
  \/ \E k \in 1..MaxLoadCalls, ok \in BOOLEAN : LoadModelCallDone(k, ok)
  \/ \E t \in BagToSet(transfers) : TransferComplete(t)
  \/ \E t \in BagToSet(transfers) : TransferFail(t)

SpecLoad == InitTranslate /\ [][NextLoad]_vars

\* The model entries of the application at rest, with no model on disk,
\* under urgent requestModel calls, the downloads they start with their
\* progress callbacks, and deleteModel.
NextEntries ==
  \/ \E id \in ModelIds : RequestModel(id, TRUE)
  \/ \E t \in BagToSet(transfers), progress \in { 50 } : TransferProgress(t, progress)
  \/ \E t \in BagToSet(transfers) : TransferComplete(t)
  \/ \E t \in BagToSet(transfers) : TransferFail(t)
  \/ \E id \in ModelIds : DeleteModel(id)
  \/ \E ok \in BOOLEAN : UnlinkDone(ok)

\* Start-up that found no model file on disk.
InitEntries == InitTranslate /\ disk = {}

SpecEntries == InitEntries /\ [][NextEntries]_vars

\* The history store under addTranslation and clearHistory calls made while
\* loads and writes are pending.
NextHistory ==
  \/ \E rec \in 1..MaxHistoryAdds : AddTranslation(rec)
  \/ ClearHistory
  \/ \E o \in historyOps, ok \in BOOLEAN : LoadHistoryFromFile(o, ok)
  \/ \E o \in historyOps, ok \in BOOLEAN : SaveHistoryToFile(o, ok)

SpecHistory == InitHistory /\ [][NextHistory]_vars

(* The confidence functions on every input of the bounded domain *)

NextConfidence ==
  \/ CalculateTranslationConfidence
  \/ DetectLanguage
  \/ CalculateModelPriority
  \/ FindModelForLanguagePair
  \/ GenerateAlternativeTranslations
  \/ TranslateText

SpecConfidence == InitConfidence /\ [][NextConfidence]_vars


----------------------------------------------------------------------------
(* Properties of the scheduler *)

\* C1: in every reachable state the number of ids in activeDownloads is at
\* most maxConcurrentDownloads.
C1_ActiveWithinLimit ==
  Cardinality(activeDownloads) <= maxConcurrentDownloads

C3_AdmissionWithinStorage ==
  [][ \A item \in pendingChecks :
        ( /\ item \notin pendingChecks'
          /\ transfers' = transfers (+)
                            SetToBag({NewTransfer(models, item.modelId, "queue")}) )
        => DiskUsage(disk) + item.estimatedSize <= maxStorageUsage ]_vars

----------------------------------------------------------------------------
(* Properties of the orchestrator and of the inference engine *)

\* C4: the result translate returns on a mock branch carries the model id of
\* that branch ("mock_no_model_config" when no catalog entry matches,
\* "mock_model_unavailable" when the model is not resident, "mock" when
\* inference threw), confidence 0.1, timeTaken 10, no alternatives, and as text
\* the phrase-table entry of the lower-cased trimmed input for the target code
\* if there is one, else "[<target language name>] <original text>".
C4_ResultIdentifiesBranch ==
  (call.pc = "returned" /\ call.branch \in {"no_model_config", "model_unavailable", "error"})
  => LET r         == call.result[1]
         lowerText == Trim(ToLowerCase(call.text))
     IN  /\ r.modelId = CASE call.branch = "no_model_config"   -> "mock_no_model_config"
                          [] call.branch = "model_unavailable" -> "mock_model_unavailable"
                          [] call.branch = "error"             -> "mock"
         /\ r.confidence = Num(MockConfidence)
         /\ r.timeTaken = MockTimeTaken
         /\ r.alternatives = << >>
         /\ r.translatedText =
              IF HasMockTranslation(lowerText, call.targetLanguage.code)
              THEN MockTranslationOf(lowerText, call.targetLanguage.code)
              ELSE BracketName(call.targetLanguage.name, call.text)

\* C5: a translate call without useOfflineOnly that finds the catalog model not
\* resident leaves the model with the scheduler (queued, in admission or
\* active), a new queue entry having the base priority plus 50, and starts no
\* transfer itself.
C5_DownloadThroughScheduler ==
  [][ ( /\ call' # call
        /\ call'.pc = "returned"
        /\ call'.branch = "model_unavailable"
        /\ ~call'.useOfflineOnly )
      => LET id      == call'.modelId
             entries == { downloadQueue'[i] : i \in 1..Len(downloadQueue') } \cup pendingChecks'
             before  == { downloadQueue[i] : i \in 1..Len(downloadQueue) } \cup pendingChecks
         IN  /\ \/ \E e \in entries : e.modelId = id
                \/ id \in activeDownloads'
             /\ \A e \in entries \ before :
                  e.modelId = id => e.priority = models[id].priority + PriorityBoost
             /\ transfers' = transfers ]_vars

\* C6: translate never rejects, the result after a failed load, inference or
\* awaited download is the mock result with confidence 0.1, and no download
\* started by translate rejects without a handler.
C6_FailuresContained ==
  /\ call.pc # "rejected"
  /\ (call.pc = "returned" /\ call.branch = "error")
       => call.result[1].confidence = Num(MockConfidence)
  /\ unhandled = {}

\* C7: no translate call waits for ModelManager.downloadModel.
C7_NoAwaitedDownload ==
  call.pc # "download"

\* C8: a translate call that has returned has issued exactly one history append,
\* carrying the original text, the translated text of the returned result, both
\* languages, a model id, the result's confidence and the detection confidence
\* (present when detection ran); the append is still pending when translate
\* returns, and its settling, failure included, leaves the call and its result
\* as they were.
C8_OneAppendPerCall ==
  /\ [] ( /\ call.pc # "rejected"
          /\ call.pc = "returned" =>
               /\ Len(callAppends) = 1
               /\ callAppends[1].originalText = call.text
               /\ callAppends[1].translatedText = call.result[1].translatedText
               /\ callAppends[1].sourceLanguage = call.sourceLanguage
               /\ callAppends[1].targetLanguage = call.targetLanguage
               /\ callAppends[1].modelId # Undefined
               /\ callAppends[1].translationConfidence = call.result[1].confidence
               /\ callAppends[1].detectionConfidence = call.detectionConfidence )
  /\ [][ /\ (call' # call /\ call'.pc = "returned" /\ Len(callAppends') = 1)
              => callAppends'[1].state = "pending"
         /\ ( /\ call.pc = "returned"
              /\ Len(callAppends) = 1 /\ Len(callAppends') = 1
              /\ callAppends[1].state = "pending"
              /\ callAppends'[1].state \in {"resolved", "logged"} )
              => call' = call ]_vars

\* A call that detected the source language got an inference result, and its
\* history append has failed.
C8_Witness ==
  /\ call.pc = "returned"
  /\ call.branch = "ml"
  /\ call.detectionConfidence # None
  /\ Len(callAppends) = 1
  /\ callAppends[1].state = "logged"

\* C9: every confidence returned is a number between 0 and 1: the translation
\* confidence of every logits vector, the detection confidence and the
\* confidence of every alternative language.
C9_ConfidenceInUnitInterval ==
  pureRet.done =>
    /\ pureArg.fn = "confidence" =>
         /\ IsNum(pureRet.confidence)
         /\ pureRet.confidence.v >= 0
         /\ pureRet.confidence.v <= Scale
    /\ pureArg.fn = "detect" =>
         /\ pureRet.detection.confidence >= 0
         /\ pureRet.detection.confidence <= Scale
         /\ \A i \in 1..Len(pureRet.detection.alternativeLanguages) :
              /\ pureRet.detection.alternativeLanguages[i].confidence >= 0
              /\ pureRet.detection.alternativeLanguages[i].confidence <= Scale

\* C10: when no translate call is in progress, every tensor allocated by the
\* calls made so far has been disposed.
C10_TensorsReleased ==
  call.pc \in {"idle", "returned", "rejected"} => liveTensors = 0

----------------------------------------------------------------------------
(* Properties of the scheduler's public operations *)

\* C11: an urgent requestModel starts a transfer for a model that is not
\* downloaded only if the current usage plus the model's download size is
\* within the storage limit in force (the configured maxStorageUsage, or the
\* default the storage check substitutes for an unset one).
C11_UrgentWithinStorage ==
  [][ \A id \in DOMAIN models :
        transfers' = transfers (+) SetToBag({NewTransfer(models', id, "urgent")})
        => DiskUsage(disk) + models[id].downloadSize
             <= EffectiveMaxUsage(maxStorageUsage) ]_vars

\* C12: a call of pauseProgressiveDownloading leaves the queue empty and every
\* other field of the manager as it was (the active set, every model's state,
\* the admission passes in progress, the transfers in flight), and every
\* transfer in flight while paused can still settle.
C12_PauseClearsQueueOnly ==
  /\ [][ ( /\ paused'
           /\ \/ ~paused
              \/ /\ downloadQueue # << >>
                 /\ downloadQueue' = << >>
                 /\ pendingChecks' = pendingChecks )
         => /\ downloadQueue' = << >>
            /\ UNCHANGED <<models, initIdx, activeDownloads, maxStorageUsage,
                           pendingChecks, transfers, disk, clock>> ]_vars
  /\ [] ( paused =>
            \A t \in BagToSet(transfers) :
              ENABLED (TransferComplete(t) \/ TransferFail(t)) )

\* Paused while an admitted download is in flight.
C12_Witness ==
  /\ paused
  /\ activeDownloads # {}
  /\ \E t \in BagToSet(transfers) : t.origin = "queue" /\ t.id \in activeDownloads

\* C13: between a call of pauseProgressiveDownloading and the next call of
\* resumeProgressiveDownloading the scheduler admits no download: no step adds
\* a model id to activeDownloads, neither for an entry that was already taken
\* off the queue and waits for its storage check nor for an entry enqueued
\* after the pause.
C13_NoAdmissionWhilePaused ==
  [][ (paused /\ paused') => activeDownloads' \subseteq activeDownloads ]_vars

\* C14: no model id occurs twice in the queue and no model id is in the queue
\* and in activeDownloads at the same time.
C14_NoDuplicateEntries ==
  /\ \A i, j \in 1..Len(downloadQueue) :
       i # j => downloadQueue[i].modelId # downloadQueue[j].modelId
  /\ \A i \in 1..Len(downloadQueue) :
       downloadQueue[i].modelId \notin activeDownloads

----------------------------------------------------------------------------
(* The queue drains: admission under fair scheduling, without pause *)

\* Enqueue, resume, reconfiguration, admission and settling.  The promises of
\* FileSystem.exists and FileSystem.stat settle, and every transfer that was
\* started completes or fails.
NextDrain ==
  \/ LoadConfig
  \/ \E id \in ModelIds, p \in EnqueuePriorities : AddToDownloadQueue(id, p, MaxDrainEnqueues)
  \/ \E v \in StorageOptions : ConfigureProgressiveDownloading(v)
  \/ ResumeProgressiveDownloading(MaxDrainEnqueues)
  \/ \E item \in pendingChecks, statOk \in BOOLEAN : StorageCheckDone(item, statOk)
  \/ \E t \in BagToSet(transfers) : TransferComplete(t)
  \/ \E t \in BagToSet(transfers) : TransferFail(t)

\* Fairness: the loop of initializeModelConfigs goes on (LoadConfig as it shows
\* on initIdx, which no other action changes), a storage check that was awaited
\* returns, and a transfer in flight settles.
SpecDrain ==
  /\ Init
  /\ [][NextDrain]_vars
  /\ WF_initIdx(initIdx < Len(MODEL_CONFIGS) /\ initIdx' = initIdx + 1)
  /\ WF_vars(\E item \in pendingChecks, statOk \in BOOLEAN : StorageCheckDone(item, statOk))
  /\ WF_vars(\E t \in BagToSet(transfers) : TransferComplete(t) \/ TransferFail(t))

\* C15: when every started download settles and pause is not called, every
\* model waiting in the queue is eventually taken off it by admission, and the
\* queue is empty again and again.
C15_QueueDrains ==
  /\ \A id \in ModelIds :
       InQueue(downloadQueue, id) ~> ~InQueue(downloadQueue, id)
  /\ []<>(downloadQueue = << >>)

\* An entry waits in the queue while two downloads are active.
C15_Witness ==
  /\ downloadQueue # << >>
  /\ Cardinality(activeDownloads) >= maxConcurrentDownloads

----------------------------------------------------------------------------
(* Properties of a download's outcome *)

\* C16: when a download the scheduler started fails, the model is no longer in
\* activeDownloads, is not in the queue, is not downloaded, no admission pass
\* and no transfer is started for it by that step (it is downloaded again only
\* if a later enqueue, request or resume names it), and no rejection is left
\* without a handler.
C16_FailedDownloadNotRetried ==
  [][ \A t \in BagToSet(transfers) :
        ( /\ t.origin = "queue"
          /\ t.kind = "real"
          /\ ~models[t.id].isDownloaded
          /\ transfers' = transfers (-) SetToBag({t})
          /\ models' = models )
        => /\ t.id \notin activeDownloads'
           /\ ~InQueue(downloadQueue', t.id)
           /\ ~models'[t.id].isDownloaded
           /\ \A item \in pendingChecks' \ pendingChecks : item.modelId # t.id
           /\ unhandled' = unhandled ]_vars

\* C17: a transfer that completes for a model that was not downloaded leaves
\* the model with isDownloaded = true, localPath the path of its model.json,
\* and downloadProgress undefined.
C17_CompletionClearsProgress ==
  [][ \A t \in BagToSet(transfers) :
        ( /\ t.kind = "real"
          /\ transfers' = transfers (-) SetToBag({t})
          /\ ~models[t.id].isDownloaded
          /\ models'[t.id].isDownloaded )
        => /\ models'[t.id].localPath = ModelJsonPath(t.id)
           /\ models'[t.id].downloadProgress = None ]_vars

\* Downloads with their progress callbacks: start-up, enqueue, admission,
\* progress reports (bytesWritten / contentLength at 50% and at 100%) and
\* settling.
NextProgress ==
  \/ LoadConfig
  \/ \E id \in ModelIds, p \in EnqueuePriorities :
       AddToDownloadQueue(id, p, MaxProgressEnqueues)
  \/ \E item \in pendingChecks, statOk \in BOOLEAN : StorageCheckDone(item, statOk)
  \/ \E t \in BagToSet(transfers), progress \in { 50, 100 } : TransferProgress(t, progress)
  \/ \E t \in BagToSet(transfers) : TransferComplete(t)
  \/ \E t \in BagToSet(transfers) : TransferFail(t)

SpecProgress == Init /\ [][NextProgress]_vars

\* C18: the values downloadProgress takes for a model never decrease and stay
\* within [0, 1], whatever transfers of that model report progress and whatever
\* else happens to the model in between.
C18_ProgressMonotonic ==
  [][ \A id \in DOMAIN models :
        LET before == models[id].downloadProgress
            after  == models'[id].downloadProgress
        IN  (before # None /\ after # None)
            => /\ before[1] <= after[1]
               /\ 0 <= after[1]
               /\ after[1] <= ProgressDone ]_vars

----------------------------------------------------------------------------
(* Admission under a storage limit *)

\* The application after start-up: enqueues of catalog and other ids (all with
\* priority 83, the base priority of the small models), a storage limit being
\* configured, admission and settling.
NextAdmission ==
  \/ \E id \in QueueIds : AddToDownloadQueue(id, 83, MaxAdmissionEnqueues)
  \/ \E v \in StorageOptions \ {0} : ConfigureProgressiveDownloading(v)
  \/ \E item \in pendingChecks, statOk \in BOOLEAN : StorageCheckDone(item, statOk)
  \/ \E t \in BagToSet(transfers) : TransferComplete(t)
  \/ \E t \in BagToSet(transfers) : TransferFail(t)

SpecAdmission == InitTranslate /\ [][NextAdmission]_vars

\* C19: a pass of processDownloadQueue that ends the storage check of its entry
\* without starting a download does so only when the usage plus the entry's
\* size exceeds the limit, logs the skip, puts the entry nowhere (not back in
\* the queue, not in activeDownloads), leaves models, disk and callers alone,
\* and goes on in the same step: if fewer than maxConcurrentDownloads ids are
\* active and the queue is not empty it takes the next entry off the queue.
C19_SkipOnStorageFailure ==
  [][ \A item \in pendingChecks :
        ( /\ item \notin pendingChecks'
          /\ transfers' = transfers )
        => /\ DiskUsage(disk) + item.estimatedSize > EffectiveMaxUsage(maxStorageUsage)
           /\ item.modelId \in skipLog'
           /\ activeDownloads' = activeDownloads
           /\ UNCHANGED <<models, disk, unhandled, call>>
           /\ IF Cardinality(activeDownloads) < maxConcurrentDownloads
                 /\ downloadQueue # << >>
              THEN /\ downloadQueue' = Tail(downloadQueue)
                   /\ pendingChecks' = (pendingChecks \ {item}) \cup {Head(downloadQueue)}
              ELSE /\ downloadQueue' = downloadQueue
                   /\ pendingChecks' = pendingChecks \ {item} ]_vars

\* An entry was skipped and dropped (it is not queued, not active, held by no
\* pass and not being transferred) while an admission pass is in progress.
C19_Witness ==
  \E id \in skipLog :
    /\ id \notin activeDownloads
    /\ ~InQueue(downloadQueue, id)
    /\ \A item \in pendingChecks : item.modelId # id
    /\ \A t \in BagToSet(transfers) : t.id # id
    /\ pendingChecks # {}

----------------------------------------------------------------------------
(* Pause and resume after start-up *)

\* Start-up, pause, resume, admission, settling and deletion of a model.
NextPause ==
  \/ LoadConfig
  \/ PauseProgressiveDownloading
  \/ ResumeProgressiveDownloading(MaxPauseEnqueues)
  \/ \E item \in pendingChecks, statOk \in BOOLEAN : StorageCheckDone(item, statOk)
  \/ \E t \in BagToSet(transfers) : TransferComplete(t)
  \/ \E t \in BagToSet(transfers) : TransferFail(t)
  \/ \E id \in QueueIds : DeleteModel(id)
  \/ \E ok \in BOOLEAN : UnlinkDone(ok)

SpecPause == Init /\ [][NextPause]_vars

\* C20: the entries a call of resumeProgressiveDownloading adds are entries of
\* models that are not downloaded, at most 5, each among the 5 of highest base
\* priority of the undownloaded models and carrying the model's base priority
\* and download size; every such model is scheduled afterwards (queued, in an
\* admission pass, or active); admission has run (the queue is empty or
\* maxConcurrentDownloads ids are active); nothing else changes.
C20_ResumeSeedsQueue ==
  [][ (paused /\ ~paused')
      => LET before       == { downloadQueue[i] : i \in 1..Len(downloadQueue) }
                               \cup pendingChecks
             after        == { downloadQueue'[i] : i \in 1..Len(downloadQueue') }
                               \cup pendingChecks'
             new          == after \ before
             undownloaded == { id \in DOMAIN models : ~models[id].isDownloaded }
             higher(id)   == { o \in undownloaded : models[o].priority > models[id].priority }
             notLower(id) == { o \in undownloaded \ {id} :
                                 models[o].priority >= models[id].priority }
         IN  /\ \A e \in new :
                  /\ e.modelId \in undownloaded
                  /\ Cardinality(higher(e.modelId)) < TopN
                  /\ e.priority = models[e.modelId].priority
                  /\ e.estimatedSize = models[e.modelId].downloadSize
             /\ Cardinality(new) <= TopN
             /\ \A id \in undownloaded :
                  Cardinality(notLower(id)) < TopN
                  => \/ id \in activeDownloads'
                     \/ \E e \in after : e.modelId = id
             /\ downloadQueue' = << >>
                  \/ Cardinality(activeDownloads') >= maxConcurrentDownloads
             /\ UNCHANGED <<models, activeDownloads, transfers, disk, maxStorageUsage>> ]_vars

\* After a resume: an entry enqueued after start-up waits while another model
\* is downloaded.
C20_Witness ==
  /\ ~paused
  /\ \E e \in { downloadQueue[i] : i \in 1..Len(downloadQueue) } \cup pendingChecks :
       e.addedAt >= Len(MODEL_CONFIGS)
  /\ \E id \in DOMAIN models : models[id].isDownloaded

----------------------------------------------------------------------------
\* Properties of the remaining public operations

\* C21: deleteModel on an id that is unknown or not downloaded returns without
\* changing the catalog entries or the disk; only a downloaded known id reaches
\* the unlink, and nothing has changed by then; when the unlink succeeds the
\* entry stays in the map with isDownloaded false and localPath and
\* downloadProgress cleared, every other entry as it was, and the directory is
\* gone; when the unlink fails the call rejects and entries and disk are as
\* they were.
C21_DeleteModel ==
  [][ /\ (deletion' # deletion /\ deletion'.pc = "noop") =>
           UNCHANGED <<models, disk, downloadQueue, activeDownloads, transfers>>
      /\ (deletion' # deletion /\ deletion'.pc = "unlink") =>
           /\ deletion'.id \in DOMAIN models
           /\ models[deletion'.id].isDownloaded
           /\ models[deletion'.id].localPath # Undefined
           /\ UNCHANGED <<models, disk, downloadQueue, activeDownloads, transfers>>
      /\ (deletion.pc = "unlink" /\ deletion'.pc # "unlink") =>
           /\ deletion'.pc \in {"resolved", "rejected"}
           /\ deletion'.pc = "resolved" =>
                /\ DOMAIN models' = DOMAIN models
                /\ \A id \in DOMAIN models \ {deletion.id} : models'[id] = models[id]
                /\ ~models'[deletion.id].isDownloaded
                /\ models'[deletion.id].localPath = Undefined
                /\ models'[deletion.id].downloadProgress = None
                /\ models'[deletion.id].priority = models[deletion.id].priority
                /\ models'[deletion.id].downloadSize = models[deletion.id].downloadSize
                /\ disk' = disk \ {deletion.id}
           /\ deletion'.pc = "rejected" => UNCHANGED <<models, disk>> ]_vars

\* A deletion has resolved and left a known entry that is not downloaded, has
\* no progress and is not on disk, after a download had completed.
C21_Witness ==
  /\ deletion.pc = "resolved"
  /\ \E id \in DOMAIN models :
       /\ ~models[id].isDownloaded
       /\ models[id].downloadProgress = None
       /\ id \notin disk
  /\ \E id \in DOMAIN models : models[id].downloadProgress = Some(ProgressDone)

C23_ExactMatchResolution ==
  (pureRet.done /\ pureArg.fn = "resolve") =>
    LET src     == pureArg.pair[1]
        tgt     == pureArg.pair[2]
        Matches == { i \in 1..Len(MODEL_CONFIGS) :
                       MODEL_CONFIGS[i].srcLang = src /\ MODEL_CONFIGS[i].targetLang = tgt }
    IN  /\ Matches = {} => (pureRet.modelConfig = None /\ pureRet.modelId = Undefined)
        /\ Matches # {} =>
             /\ pureRet.modelConfig # None
             /\ \E i \in Matches :
                  /\ \A j \in Matches : i <= j
                  /\ pureRet.modelConfig[1] = MODEL_CONFIGS[i]
             /\ pureRet.modelId = pureRet.modelConfig[1].id

\* Both kinds of pair have been resolved: tr->tr, which has no entry although
\* tr->en and en->tr exist, and en->tr, which two entries match.
C23_Witness ==
  /\ pureRet.done
  /\ pureArg.fn = "resolve"
  /\ \/ /\ pureArg.pair = <<"tr", "tr">>
        /\ HasModelForLanguagePair("tr", "en") /\ HasModelForLanguagePair("en", "tr")
        /\ pureRet.modelId = Undefined
     \/ /\ pureArg.pair = <<"en", "tr">>
        /\ pureRet.modelId = "en2tr-small"

\* C24: detectLanguage on a text of trimmed length below 10, the empty text
\* included, returns English with confidence 0.3 and no alternatives and calls
\* neither detector; on a longer text on which a detector throws it returns the
\* same result.
C24_DefaultDetection ==
  (pureRet.done /\ pureArg.fn = "detect") =>
    LET short   == Len(Trim(pureArg.text)) < 10
        default == [ detectedLanguage     |-> FindLanguage("en"),
                     confidence           |-> 300,
                     alternativeLanguages |-> << >> ]
    IN  /\ short => (pureRet.detection = default /\ ~pureRet.detectorsCalled)
        /\ (~short /\ pureArg.det.throws) => pureRet.detection = default

\* A text of twelve characters and trimmed length five was given with
\* detectors that report Turkish, and the default came back.
C24_Witness ==
  /\ pureRet.done
  /\ pureArg.fn = "detect"
  /\ Len(pureArg.text) >= 10
  /\ Len(Trim(pureArg.text)) < 10
  /\ pureArg.det.franc = "tur"
  /\ ~pureArg.det.throws
  /\ pureRet.detection.detectedLanguage.code = "en"
  /\ pureRet.detection.confidence = 300

C26_AlternativesDistinctReported ==
  (pureRet.done /\ pureArg.fn = "detect") =>
    LET alts     == pureRet.detection.alternativeLanguages
        results  == pureArg.det.results
        Reported == { results[i].lang.base : i \in 1..Len(results) }
    IN  /\ Len(alts) <= 3
        /\ \A i, j \in 1..Len(alts) : i # j => alts[i].language.code # alts[j].language.code
        /\ \A i \in 1..Len(alts) :
             /\ IsSupported(alts[i].language.code)
             /\ alts[i].language.code \in Reported
             /\ alts[i].language.code # pureRet.detection.detectedLanguage.code
             /\ alts[i].confidence <= 900

\* C27: TranslationService.downloadModel throws, changing no status, when no
\* catalog model matches the pair, and only then; when the download of the
\* manager fails the call rejects and the model's status is not downloaded and
\* not downloading; when it succeeds the call resolves and the status is
\* downloaded and not downloading.
C27_DownloadModelStatus ==
  [][ downloadCall' # downloadCall =>
        LET id == downloadCall'.id
        IN  /\ downloadCall'.pc = "thrown" =>
                 /\ ~HasModelForLanguagePair(downloadCall'.pair[1], downloadCall'.pair[2])
                 /\ UNCHANGED <<modelStatus, models, transfers>>
            /\ downloadCall'.pc = "pending" =>
                 /\ HasModelForLanguagePair(downloadCall'.pair[1], downloadCall'.pair[2])
                 /\ id \in ModelIds
            /\ downloadCall'.pc = "rejected" =>
                 /\ id \in DOMAIN modelStatus'
                 /\ ~modelStatus'[id].isDownloaded
                 /\ ~modelStatus'[id].isDownloading
            /\ downloadCall'.pc = "resolved" =>
                 /\ id \in DOMAIN modelStatus'
                 /\ modelStatus'[id].isDownloaded
                 /\ ~modelStatus'[id].isDownloading ]_vars

\* A direct download has been rejected, a deletion having resolved before,
\* and the status of its model is not downloaded and not downloading.
C27_Witness ==
  /\ downloadCall.pc = "rejected"
  /\ downloadCall.id \in DOMAIN modelStatus
  /\ ~modelStatus[downloadCall.id].isDownloaded
  /\ ~modelStatus[downloadCall.id].isDownloading
  /\ deletion.pc = "resolved"

\* C28: a translate call with useOfflineOnly set starts no download and
\* enqueues nothing: the step that makes the call leaves the transfers, the
\* queue, the active set, the model entries and the status map as they were.
C28_OfflineOnlyStartsNothing ==
  [][ (/\ call' # call
       /\ call.pc \notin {"download", "tfload"}
       /\ call'.useOfflineOnly) =>
        /\ transfers' = transfers
        /\ downloadQueue' = downloadQueue
        /\ activeDownloads' = activeDownloads
        /\ models' = models
        /\ modelStatus' = modelStatus ]_vars

\* C29: generateAlternativeTranslations returns at most 3 alternatives, none
\* for fewer than two predictions; their confidences are, in order, the
\* probabilities at places 2 to 4 of the softmax probabilities sorted
\* descending that are at least 0.1, so the top entry is never among them and
\* no confidence exceeds the top probability.
C29_AlternativesFromRanks ==
  (pureRet.done /\ pureArg.fn = "alternatives") =>
    LET probs   == softmax(pureArg.logits)
        n       == Len(probs)
        alts    == pureRet.alternatives
        \* the probability at place k of the descending order
        Desc(k) == CHOOSE v \in { probs[i] : i \in 1..n } :
                     /\ Cardinality({ i \in 1..n : probs[i] > v }) < k
                     /\ Cardinality({ i \in 1..n : probs[i] >= v }) >= k
        ranks   == [k \in 1..(IF n < 4 THEN (IF n < 2 THEN 0 ELSE n - 1) ELSE 3) |-> Desc(k + 1)]
        kept    == SelectSeq(ranks, LAMBDA v : v >= 100)
    IN  /\ Len(alts) <= 3
        /\ n <= 1 => alts = << >>
        /\ Len(alts) = Len(kept)
        /\ \A i \in 1..Len(alts) :
             /\ alts[i].confidence = kept[i]
             /\ alts[i].confidence >= 100
             /\ alts[i].confidence <= Desc(1)

\* Five equal predictions: the probabilities are 0.2 each, three alternatives
\* come back and the fifth entry is left out.
C29_Witness ==
  /\ pureRet.done
  /\ pureArg.fn = "alternatives"
  /\ Len(pureArg.logits) = 5
  /\ \A i \in 1..5 : pureArg.logits[i] = pureArg.logits[1]
  /\ Len(pureRet.alternatives) = 3
  /\ \A i \in 1..3 : pureRet.alternatives[i].confidence = 200

\* C30: MlService.translateText rejects, with no result, when the model id has
\* no catalog entry, when the model does not load, when tokenization fails or
\* when inference fails; a call that does not reject returns a complete
\* result whose modelId is the requested id, whose timeTaken is a number and
\* whose alternatives are a list; the failure of detokenize, and no other,
\* gives the result "[Error during detokenization]" with confidence 0 and no
\* alternatives.
C30_TranslateTextOutcome ==
  (pureRet.done /\ pureArg.fn = "translateText") =>
    LET run == pureArg.env
        r   == pureRet.translation
    IN  /\ (\/ pureArg.modelId \notin { MODEL_CONFIGS[i].id : i \in 1..Len(MODEL_CONFIGS) }
            \/ ~pureArg.loadOk
            \/ ~run.tokenizeOk
            \/ run.outputs = 0) => r.threw
        /\ r.threw <=> r.result = None
        /\ ~r.threw =>
             LET res == r.result[1]
             IN  /\ DOMAIN res = {"translatedText", "confidence", "alternatives",
                                  "timeTaken", "modelId"}
                 /\ res.modelId = pureArg.modelId
                 /\ res.timeTaken \in Nat
                 /\ Len(res.alternatives) \in Nat
                 /\ ~run.arraySyncOk =>
                      /\ res.translatedText = DetokenizeErrorText
                      /\ res.confidence = Num(0)
                      /\ res.alternatives = << >>
                 /\ run.arraySyncOk =>
                      /\ res.translatedText = FromCharCodes(run.logits)
                      /\ res.translatedText # DetokenizeErrorText

\* Reading the output tensor failed on a loaded model and the degraded result
\* came back.
C30_Witness ==
  /\ pureRet.done
  /\ pureArg.fn = "translateText"
  /\ pureArg.loadOk
  /\ ~pureArg.env.arraySyncOk
  /\ ~pureRet.translation.threw
  /\ pureRet.translation.result[1].confidence = Num(0)
  /\ pureRet.translation.result[1].translatedText = DetokenizeErrorText

----------------------------------------------------------------------------
(* Properties of the handle cache, of residency and of the history store *)

\* C31: loadModel caches one runtime handle per model id.  After a successful
\* loadModel(id), a later loadModel(id) without forceReload returns the cached
\* handle and neither consults the model manager nor loads again;
\* loadModel(id, true) loads again and replaces the cached handle; a handle
\* is replaced by nothing else; a loadModel call that rejects leaves no
\* handle cached for its id.
C31_HandleCache ==
  [][ /\ \A k \in 1..MaxLoadCalls :
           LET c == loadCalls[k]
               d == loadCalls'[k]
           IN  d # c =>
                 /\ (/\ c.pc \in {"idle", "resolved", "rejected"}
                     /\ ~d.forceReload
                     /\ d.id \in DOMAIN activeModels) =>
                       /\ d.pc = "resolved"
                       /\ d.handle = Some(activeModels[d.id])
                       /\ transfers' = transfers
                       /\ activeModels' = activeModels
                 /\ (d.pc = "resolved" /\ d.forceReload) =>
                       /\ c.pc = "tfload"
                       /\ d.handle = Some(activeModels'[d.id])
                       /\ d.id \in DOMAIN activeModels => activeModels'[d.id] # activeModels[d.id]
                 /\ d.pc = "rejected" => d.id \notin DOMAIN activeModels'
      /\ \A id \in DOMAIN activeModels :
           activeModels'[id] # activeModels[id] =>
             \E k \in 1..MaxLoadCalls :
               /\ loadCalls[k].pc = "tfload"
               /\ loadCalls'[k].pc = "resolved"
               /\ loadCalls[k].id = id
               /\ loadCalls[k].forceReload ]_vars

\* C32: the orchestrator's view of residency agrees with the scheduler's.  In
\* every quiescent state (no transfer in flight, no translate, downloadModel
\* or deleteModel call in progress), isModelDownloaded(src, target) is true
\* exactly when ModelManager holds isDownloaded = true for the model the pair
\* resolves to; consequently a translate call for a pair whose model
\* ModelManager holds as downloaded does not take the model-unavailable branch.
C32_ResidencyAgrees ==
  /\ [](LET Codes == {"en", "tr", "es"}
            Quiescent == /\ transfers = EmptyBag
                         /\ call.pc \in {"idle", "returned"}
                         /\ downloadCall.pc # "pending"
                         /\ deletion.pc # "unlink"
        IN  Quiescent =>
              \A src \in Codes, tgt \in Codes :
                HasModelForLanguagePair(src, tgt) =>
                  LET id == getModelIdForLanguagePair(src, tgt)
                  IN  StatusIsDownloaded(modelStatus, id) <=> models[id].isDownloaded)
  /\ [][ (/\ call' # call
          /\ call.pc \in {"idle", "returned"}
          /\ call'.modelId \in DOMAIN models
          /\ models[call'.modelId].isDownloaded)
         => call'.branch # "model_unavailable" ]_vars

\* C33: at any time at most one file transfer is in flight for a given model
\* id, whichever entry point started it (queue admission, requestModel,
\* getModel, loadModel, TranslationService.downloadModel).
C33_OneTransferPerModel ==
  \A t \in BagToSet(transfers) :
    t.kind = "real" =>
      /\ CopiesIn(t, transfers) = 1
      /\ \A u \in BagToSet(transfers) : (u.kind = "real" /\ u.id = t.id) => u = t

\* C34: once a model's entry has isDownloaded = true, it keeps isDownloaded =
\* true and its localPath until a deleteModel call for that id succeeds: no
\* other step (progress callback, completion, failure, requestModel) sets it
\* back.
C34_DownloadedStays ==
  [][ \A id \in DOMAIN models :
        (models[id].isDownloaded /\ id \in DOMAIN models') =>
          \/ /\ models'[id].isDownloaded
             /\ models'[id].localPath = models[id].localPath
          \/ /\ deletion.pc = "unlink"
             /\ deletion.id = id
             /\ deletion'.pc = "resolved" ]_vars

\* C35: a model's usageCount never decreases.  A step changes it only by
\* adding exactly 1, which a requestModel call for that id does together with
\* setting lastUsed; no other operation (progress callback, completion,
\* deleteModel) lowers it or discards an increment.
C35_UsageCountMonotonic ==
  [][ \A id \in DOMAIN models :
        id \in DOMAIN models' =>
          \/ models'[id].usageCount = models[id].usageCount
          \/ /\ models'[id].usageCount = models[id].usageCount + 1
             /\ models'[id].lastUsed # None ]_vars

\* C36: in every reachable state, for every model, isDownloaded is true
\* exactly when localPath is defined.
C36_DownloadedIffLocalPath ==
  \A id \in DOMAIN models :
    models[id].isDownloaded <=> models[id].localPath # Undefined

\* A model that was downloaded, with progress callbacks, and then deleted
\* while another model is downloaded.
C36_Witness ==
  \E id \in DOMAIN models, other \in DOMAIN models :
    /\ deletion.pc = "resolved"
    /\ ~models[id].isDownloaded
    /\ id \notin disk
    /\ models[other].isDownloaded
    /\ models[other].downloadProgress = Some(ProgressDone)

\* C37: once the catalog is loaded, the set of model ids ModelManager holds is
\* exactly the set of catalog ids and never changes, and every entry's id
\* field equals its key; deleteModel resets an entry and does not remove it.
\* While the catalog is being loaded the entries held are catalog entries.
C37_CatalogIdsFixed ==
  /\ DOMAIN models \subseteq ModelIds
  /\ CatalogLoaded => DOMAIN models = ModelIds
  /\ \A id \in DOMAIN models : models[id].id = id

\* A model of the loaded catalog has been downloaded and deleted.
C37_Witness ==
  /\ CatalogLoaded
  /\ deletion.pc = "resolved"
  /\ \E id \in DOMAIN models :
       /\ ~models[id].isDownloaded
       /\ models[id].localPath = Undefined
       /\ id \notin disk
       /\ models[id].id = id

\* C38: while a download that translate started is in flight the status of
\* its model says isDownloading, and further translate calls for the pair
\* start no additional download: at most one such download per model is in
\* flight, and one is started only when the status does not say
\* isDownloading.  After that download has failed, the next translate call
\* for the pair without useOfflineOnly starts a new one.
C38_OneTranslateDownload ==
  [][ /\ \A t \in BagToSet(transfers') :
           t.origin = "translate" =>
             /\ CopiesIn(t, transfers') = 1
             /\ \A u \in BagToSet(transfers') :
                  (u.origin = "translate" /\ u.id = t.id) => u = t
             /\ StatusIsDownloading(modelStatus', t.id)
             /\ CopiesIn(t, transfers) = 0 => ~StatusIsDownloading(modelStatus, t.id)
      /\ (/\ call.pc \in {"idle", "returned"}
          /\ call'.pc = "returned"
          /\ \/ call' # call
             \/ /\ callAppends' # callAppends
                /\ \A i \in 1..Len(callAppends') : callAppends'[i].state = "pending"
          /\ ~call'.useOfflineOnly
          /\ call'.modelId \in unhandled
          /\ ~StatusIsDownloaded(modelStatus, call'.modelId)
          /\ ~StatusIsDownloading(modelStatus, call'.modelId))
         => /\ transfers' = transfers (+)
                              SetToBag({NewTransfer(models, call'.modelId, "translate")})
            /\ StatusIsDownloading(modelStatus', call'.modelId) ]_vars

\* A download that translate started has failed and a later translate call
\* for the pair has started another, which is in flight.
C38_Witness ==
  \E t \in BagToSet(transfers) :
    /\ t.origin = "translate"
    /\ t.id \in unhandled
    /\ StatusIsDownloading(modelStatus, t.id)
    /\ call.pc = "returned"
    /\ call.modelId = t.id

\* C39: the history store loses and resurrects nothing under concurrent
\* loading.  getHistory returns the array once isLoaded is true: it then
\* holds every record whose addTranslation call has resolved, unless
\* clearHistory was called after the record was put in the array; and after
\* clearHistory has resolved it holds no record added before the clear
\* (the record of the earlier session, or one whose addTranslation call had
\* resolved when clearHistory was called).
C39_HistoryKeepsRecords ==
  LET held == { history[i] : i \in 1..Len(history) }
  IN  isLoaded =>
        /\ \A o \in historyOps :
             (o.op = "addTranslation" /\ o.pc = "resolved" /\ o.atClear = "none")
               => o.rec \in held
        /\ (\E c \in historyOps : c.op = "clearHistory" /\ c.pc = "resolved") =>
             /\ 0 \notin held
             /\ \A o \in historyOps :
                  (o.op = "addTranslation" /\ o.atClear = "resolved") => o.rec \notin held

====
